---- MODULE Spec2Model ----
(***************************************************************************)
(* Staged-approval workflow of the Etmam backend.                          *)
(*                                                                         *)
(* Part 1: payment workflow (src/api/payment/workflow+api.js): the table   *)
(* payment_workflow_requests, the create / accountant / manager handlers   *)
(* and the Medad (ERP) sync that follows the manager approval.             *)
(* Part 2: order invoice sync (src/api/medad/salesmen+api.js) and the      *)
(* order acceptance handlers.                                              *)
(*                                                                         *)
(* Every request is served by a slot p in Procs; one action is one         *)
(* database statement or one HTTP exchange of a handler together with the  *)
(* local computation around it, so that handlers interleave exactly at     *)
(* their awaits.  Money is counted in thousandths of a currency unit.      *)
(***************************************************************************)
EXTENDS Integers, Sequences, FiniteSets, TLC

VARIABLES payments, req, now, cachedToken, tokenExpiry, statedExpiry, orders, quotations

vars == <<payments, req, now, cachedToken, tokenExpiry, statedExpiry, orders, quotations>>

\* ---------------------------------------------------------------- bounds
NumReq == 2
MaxPayments == 1
MaxOrders == 1
MaxIdOrders == 2
MaxQuotations == 3
MaxRev == 2
MaxLifeQuotations == 1
MaxNow == 61
MaxLegacyRows == 3

Procs == 1..NumReq

\* SQL NULL in a numeric or timestamp column, and in a text column
NULL == -1
NULLTEXT == "null"

IsSet(x) == x # NULL

\* ------------------------------------------------------------ input sets
\* request ids: 0 is rejected by the id check, the others may or may not exist
PaymentIdInputs == 0..MaxPayments
\* amounts in thousandths; 0 and negative values fail the "> 0" checks
AmountInputs == {0, 1000000}
DueInputs == {0, 900004, 950000}
PayInputs == {0, 900000, 950000}
PriorityInputs == {" 1", "3"}
\* stated token lifetime, in units of 60 seconds
ExpiresInInputs == {1, 2}
TokenOutcomes == {"ok", "http_error", "no_token"}
\* answer of the ERP to the POST: <<response.ok, body text>>; the body is JSON
\* text, non-JSON text, or empty
PostOutcomes == {<<TRUE, "json">>, <<TRUE, "text">>, <<FALSE, "text">>, <<FALSE, "">>}

\* ------------------------------------------------------- pure functions
\* String(priority ?? '').trim()
Trim(s) == IF s = " 1" THEN "1" ELSE s

\* Number(x.toFixed(2)) on thousandths: nearest hundredth
ToFixed2(x) == IF x < 0 THEN 0 - (((0 - x) + 5) \div 10) * 10
               ELSE ((x + 5) \div 10) * 10

PaymentState(remainingAmount) == IF remainingAmount > 0 THEN "partial" ELSE "full"

\* mutant of the final status: a partial payment is not told apart
FinalStatus_AlwaysFull(paymentState) == "approved_manager"

FinalStatus(paymentState) ==
  IF paymentState = "partial" THEN "approved_manager_partial" ELSE "approved_manager"

\* rawText ? JSON.parse(rawText) : {}   with   catch { raw: rawText }
ParseBody(rawText) ==
  IF rawText = "" THEN "empty_object"
  ELSE IF rawText = "json" THEN "parsed"
  ELSE "raw"

\* rawText || `Medad payment failed with status ${status}`
PaymentErrorText(rawText) ==
  IF rawText # "" THEN rawText ELSE "Medad payment failed with status"

\* ------------------------------------------------------------ the table
NewPaymentRow(amount) ==
  [ operation_amount      |-> amount,
    stage                 |-> "accountant",
    status                |-> "pending_accountant",
    accountant_due_amount |-> NULL,
    accountant_id         |-> NULL,
    accountant_updated_at |-> NULL,
    manager_pay_amount    |-> NULL,
    remaining_amount      |-> NULL,
    payment_state         |-> NULLTEXT,
    priority              |-> NULLTEXT,
    manager_approved      |-> FALSE,
    manager_id            |-> NULL,
    manager_updated_at    |-> NULL,
    medad_payload         |-> NULL,
    medad_response        |-> NULLTEXT,
    medad_sync_status     |-> "not_sent",
    medad_error           |-> NULLTEXT,
    medad_synced_at       |-> NULL ]

Exists(id) == id \in 1..Len(payments)

\* ------------------------------------------------------ the orders table
\* the Medad columns an order row and its order_products carry: TRUE stands for
\* a value, FALSE for NULL.  medad_customer_id is the column of the joined
\* client_medad_customers row.
NoLink ==
  [ client_medad_customer_id |-> FALSE, medad_customer_id |-> FALSE,
    warehouse_no |-> FALSE, medad_salesman_id |-> FALSE,
    medad_product_no |-> <<FALSE, FALSE>> ]

FullLink ==
  [ client_medad_customer_id |-> TRUE, medad_customer_id |-> TRUE,
    warehouse_no |-> TRUE, medad_salesman_id |-> TRUE,
    medad_product_no |-> <<TRUE, TRUE>> ]

LinkInputs ==
  { FullLink,
    [FullLink EXCEPT !.medad_customer_id = FALSE],
    [FullLink EXCEPT !.warehouse_no = FALSE, !.medad_product_no = <<TRUE, FALSE>>],
    [FullLink EXCEPT !.medad_salesman_id = FALSE] }

\* ------------------------------------------------------- sequence ids
\* A custom_id is PREFIX-YYYY- followed by the decimal digits of the number
\* and, after an edit, by " Rev" and the revision: the record of its digit
\* string and its revision (0: no suffix).  Prefix and year do not vary.
PadWidth == 5

RECURSIVE Digits(_)
Digits(n) == IF n < 10 THEN <<n>> ELSE Append(Digits(n \div 10), n % 10)

\* String(n).padStart(5, '0')
RECURSIVE PadStart(_, _)
PadStart(ds, w) == IF Len(ds) >= w THEN ds ELSE PadStart(<<0>> \o ds, w)

\* parseInt(digits, 10), and the SQL cast ::int
RECURSIVE ParseInt(_)
ParseInt(ds) ==
  IF ds = <<>> THEN 0 ELSE ParseInt(SubSeq(ds, 1, Len(ds) - 1)) * 10 + ds[Len(ds)]

MaxOf(S) == IF S = {} THEN 0 ELSE CHOOSE m \in S : \A x \in S : x <= m

\* `PREFIX-${year}-${String(n).padStart(5, '0')}`
FormatId(n) == [digits |-> PadStart(Digits(n), PadWidth), rev |-> 0]

NoCustomId == [digits |-> <<>>, rev |-> 0]

\* the characters of an id after its prefix are digits 0..9 or, in an id
\* that was not generated here, a letter
LetterChar == 10

IsDigitChar(c) == c \in 0..9

\* /^(\d+)/: the digits an id part starts with
RECURSIVE LeadingDigits(_)
LeadingDigits(s) ==
  IF s = <<>> \/ ~IsDigitChar(s[1]) THEN <<>>
  ELSE <<s[1]>> \o LeadingDigits(Tail(s))

\* idPart.match(/^(\d+)/) then parseInt; SUBSTRING(custom_id FROM
\* 'NPO-YYYY-([0-9]+)')::int: the leading digit string, whatever follows
\* it; an id part that starts with no digit is passed over, which leaves the
\* maximum where it was
NumericTail(cid) == ParseInt(LeadingDigits(cid.digits))

\* SUBSTRING(custom_id FROM 10 FOR 5)::int: the five characters after the
\* nine of "NPQ-YYYY-"
Substring10For5(cid) == ParseInt(SubSeq(cid.digits, 1, PadWidth))

\* the cast ::int of those characters raises "invalid input syntax for type
\* integer" when they are no digit string
IntCastRaises(cid) ==
  LET chars == SubSeq(cid.digits, 1, IF Len(cid.digits) < PadWidth
                                     THEN Len(cid.digits) ELSE PadWidth)
  IN chars = <<>> \/ \E i \in 1..Len(chars) : ~IsDigitChar(chars[i])

\* mutant of the revision: a suffix, once there, is kept as it is
NextRevision_Stuck(rev) == IF rev = 0 THEN 1 ELSE rev

\* the edit's revision: /Rev(\d+)$/ matched gives Rev(n + 1), else " Rev1"
NextRevision(rev) == rev + 1

\* mutant of the new id: the number is taken anew from the revision
newCustomId_Renumbered(currentCustomId) ==
  [digits |-> PadStart(Digits(currentCustomId.rev + 1), PadWidth),
   rev |-> currentCustomId.rev + 1]

newCustomId(currentCustomId) ==
  [currentCustomId EXCEPT !.rev = NextRevision(currentCustomId.rev)]

\* ---------------------------------------------------------- line items
\* money of orders and quotations is counted in hundredths; 0.15 of it
Vat(x) == (x * 15) \div 100

Line(price, quantity, vat, subtotal) ==
  [price |-> price, quantity |-> quantity, vat |-> vat, subtotal |-> subtotal]

RECURSIVE SumOver(_, _)
SumOver(lines, field) ==
  IF lines = <<>> THEN 0
  ELSE SumOver(Tail(lines), field) +
       (CASE field = "price" -> lines[1].price * lines[1].quantity
          [] field = "vat" -> lines[1].vat
          [] field = "subtotal" -> lines[1].subtotal)

NewOrderRow ==
  [ status               |-> "not Delivered",
    storekeeperaccept    |-> "pending",
    supervisoraccept     |-> "pending",
    manageraccept        |-> "pending",
    storekeeperaccept_at |-> NULL,
    supervisoraccept_at  |-> NULL,
    manageraccept_at     |-> NULL,
    custom_id            |-> NoCustomId,
    total_price          |-> NULL,
    total_vat            |-> NULL,
    total_subtotal       |-> NULL,
    products             |-> <<>>,
    locations            |-> <<>>,
    deleted              |-> FALSE,
    lockedBy             |-> 0,
    link              |-> NoLink,
    medad_sync_status |-> "not_sent",
    medad_error       |-> <<>>,
    medad_synced_at   |-> NULL,
    medad_order_no    |-> NULLTEXT ]

\* what a slot holds before it has read an order
NoOrder == NoLink

\* a row of the table that was not deleted (ids are serial, never reused)
OrderExists(id) == id \in 1..Len(orders) /\ ~orders[id].deleted

\* mutant of the row lock: a statement never waits for it
LockedByOther_Never(id, p) == FALSE

\* row id is locked by the open transaction of a slot other than p
LockedByOther(id, p) ==
  id \in 1..Len(orders) /\ orders[id].lockedBy # 0 /\ orders[id].lockedBy # p

OrderIdInputs == 1..MaxOrders

\* ------------------------------------------------------ request bodies
NoLocations == [given |-> FALSE, list |-> <<>>]

\* the fields of a create or edit body that the handlers use
NoBody ==
  [ status |-> "", products |-> <<>>, total_vat |-> NULL, total_subtotal |-> NULL,
    deliveryLocations |-> NoLocations, delivery_date |-> "valid" ]

\* a line whose vat and subtotal the client computed as the edit handler
\* does, one whose vat the client computed per unit, and one with a negative
\* price
GoodLine == Line(100, 2, 30, 230)
UnitVatLine == Line(100, 2, 15, 115)
NegativeLine == Line(0 - 100, 2, 0 - 30, 0 - 230)
ZeroPriceLine == Line(0, 2, 0, 0)

DefaultBody ==
  [NoBody EXCEPT !.status = "not Delivered", !.products = <<GoodLine>>,
                 !.total_vat = 30, !.total_subtotal = 230]

\* a body whose delivery_date moment cannot parse
BadDateBody == [DefaultBody EXCEPT !.delivery_date = "unparseable"]

\* (status || '').toLowerCase()
Lower(s) ==
  IF s \in {"Delivered", "delivered", "DELIVERED"} THEN "delivered"
  ELSE IF s = "not Delivered" THEN "not delivered"
  ELSE s

\* ----------------------------------------------------------- the slots
IdleReq ==
  [ kind |-> "none", pc |-> "idle", id |-> 0, amt |-> 0, prio |-> "", err |-> "",
    due |-> NULL, rem |-> NULL, pstate |-> NULLTEXT,
    fstatus |-> NULLTEXT, rows |-> NULL, http |-> 0,
    ok |-> FALSE, raw |-> "", msync |-> "none", merr |-> NULLTEXT,
    mbody |-> NULLTEXT, resp |-> 0, rmedad |-> "none",
    order |-> NoOrder, threw |-> FALSE,
    route |-> "", body |-> NoBody, cid |-> NoCustomId, retries |-> 0,
    writes |-> 0, seen |-> 0, attempts |-> 0, delay |-> 0, waited |-> <<>>,
    connects |-> 0, releases |-> 0 ]

\* a new request is served by the first free slot
FirstIdle == CHOOSE p \in Procs : req[p].pc = "idle" /\ \A q \in 1..(p - 1) : req[q].pc # "idle"

Respond(p, r, code) == req' = [req EXCEPT ![p] = [r EXCEPT !.pc = "done", !.resp = code]]

\* res.status(code).json({ error }) before anything of the body was used
Reject(p, k, code, error) ==
  Respond(p, [IdleReq EXCEPT !.kind = k, !.err = error], code)

Init ==
  /\ payments = <<>>
  /\ req = [p \in Procs |-> IdleReq]
  /\ now = 0
  /\ cachedToken = FALSE
  /\ tokenExpiry = 0
  /\ statedExpiry = 0
  /\ orders = <<>>
  /\ quotations = <<>>

\* ------------------------------------------- POST /payments/workflow
CreatePayment(p, amount, hasBeneficiary) ==
  /\ req[p].pc = "idle" /\ p = FirstIdle
  /\ LET r == [IdleReq EXCEPT !.kind = "create", !.amt = amount] IN
     IF ~hasBeneficiary \/ amount <= 0
     THEN /\ Reject(p, "create", 400, "beneficiary and valid amount are required")
          /\ UNCHANGED payments
     ELSE /\ Len(payments) < MaxPayments
          /\ payments' = Append(payments, NewPaymentRow(amount))
          /\ Respond(p, [r EXCEPT !.id = Len(payments) + 1, !.rows = 1], 201)
  /\ UNCHANGED <<now, quotations, cachedToken, tokenExpiry, statedExpiry, orders>>

\* ------------------------------ PATCH /payments/workflow/:id/accountant
AccountantStart(p, id, dueAmount) ==
  /\ req[p].pc = "idle" /\ p = FirstIdle
  /\ LET r == [IdleReq EXCEPT !.kind = "accountant", !.id = id, !.amt = dueAmount] IN
     IF id <= 0 THEN Reject(p, "accountant", 400, "Invalid request id")
     ELSE IF dueAmount <= 0 THEN Reject(p, "accountant", 400, "Valid dueAmount is required")
     ELSE req' = [req EXCEPT ![p] = [r EXCEPT !.pc = "update"]]
  /\ UNCHANGED <<payments, now, quotations, cachedToken, tokenExpiry, statedExpiry, orders>>

\* mutants of the accountant's WHERE clause: the stage test weakened, or dropped
AccountantWhere_NotDone(id) == Exists(id) /\ payments[id].stage # "manager_done"
AccountantWhere_IdOnly(id) == Exists(id)

\* WHERE id = $5 AND stage = 'accountant'
AccountantWhere(id) == Exists(id) /\ payments[id].stage = "accountant"

AccountantUpdate(p) ==
  /\ req[p].kind = "accountant" /\ req[p].pc = "update"
  /\ LET r == req[p] IN
     IF AccountantWhere(r.id)
     THEN /\ payments' = [payments EXCEPT ![r.id] =
                 [@ EXCEPT !.accountant_due_amount = r.amt,
                           !.accountant_id = p,
                           !.accountant_updated_at = now,
                           !.stage = "manager",
                           !.status = "pending_manager"]]
          /\ Respond(p, [r EXCEPT !.rows = 1], 200)
     ELSE /\ UNCHANGED payments
          /\ Respond(p, [r EXCEPT !.rows = 0, !.err = "Payment request not found in accountant stage"], 404)
  /\ UNCHANGED <<now, quotations, cachedToken, tokenExpiry, statedExpiry, orders>>

\* --------------------------------- PATCH /payments/workflow/:id/manager
ManagerStart(p, id, amountToPay, priority) ==
  /\ req[p].pc = "idle" /\ p = FirstIdle
  /\ LET r == [IdleReq EXCEPT !.kind = "manager", !.id = id, !.amt = amountToPay,
                              !.prio = Trim(priority)] IN
     IF id <= 0 THEN Reject(p, "manager", 400, "Invalid request id")
     ELSE IF amountToPay <= 0 THEN Reject(p, "manager", 400, "Valid amountToPay is required")
     ELSE IF ~(Trim(priority) \in {"1", "2"})
          THEN Reject(p, "manager", 400, "priority must be 1 or 2")
     ELSE req' = [req EXCEPT ![p] = [r EXCEPT !.pc = "select"]]
  /\ UNCHANGED <<payments, now, quotations, cachedToken, tokenExpiry, statedExpiry, orders>>

\* Number(row.accountant_due_amount ?? 0)
AccountantDue(id) ==
  IF IsSet(payments[id].accountant_due_amount) THEN payments[id].accountant_due_amount ELSE 0

\* mutants of the ceiling check: off by one comparison, and no check
ExceedsDue_Geq(amountToPay, accountantDue) == amountToPay >= accountantDue
ExceedsDue_Never(amountToPay, accountantDue) == amountToPay < 0

\* the ceiling check on the amount to pay
ExceedsDue(amountToPay, accountantDue) == amountToPay > accountantDue

ManagerSelect(p) ==
  /\ req[p].kind = "manager" /\ req[p].pc = "select"
  /\ LET r == req[p] IN
     IF ~Exists(r.id) THEN Respond(p, [r EXCEPT !.err = "Payment request not found"], 404)
     ELSE LET accountantDue == AccountantDue(r.id)
              remainingAmount == ToFixed2(accountantDue - r.amt)
              paymentState == PaymentState(remainingAmount)
          IN IF accountantDue <= 0
             THEN Respond(p, [r EXCEPT !.due = accountantDue,
                        !.err = "accountant due amount is missing or invalid"], 400)
             ELSE IF ExceedsDue(r.amt, accountantDue)
                  THEN Respond(p, [r EXCEPT !.due = accountantDue,
                        !.err = "amountToPay cannot be greater than accountant due amount"], 400)
             ELSE req' = [req EXCEPT ![p] =
                     [r EXCEPT !.pc = "update", !.due = accountantDue,
                               !.rem = remainingAmount, !.pstate = paymentState,
                               !.fstatus = FinalStatus(paymentState)]]
  /\ UNCHANGED <<payments, now, quotations, cachedToken, tokenExpiry, statedExpiry, orders>>

\* mutants of the manager's WHERE clause: the state test dropped or widened
ManagerWhere_IdOnly(id) == Exists(id)
ManagerWhere_AnyManager(id) ==
  Exists(id) /\ payments[id].stage \in {"manager", "manager_done"}

\* WHERE id = $8 AND stage = 'manager' AND status = 'pending_manager'
ManagerWhere(id) ==
  Exists(id) /\ payments[id].stage = "manager" /\ payments[id].status = "pending_manager"

ManagerUpdate(p) ==
  /\ req[p].kind = "manager" /\ req[p].pc = "update"
  /\ LET r == req[p] IN
     IF ManagerWhere(r.id)
     THEN /\ payments' = [payments EXCEPT ![r.id] =
                 [@ EXCEPT !.manager_pay_amount = r.amt,
                           !.remaining_amount = r.rem,
                           !.payment_state = r.pstate,
                           !.priority = r.prio,
                           !.manager_approved = TRUE,
                           !.manager_id = p,
                           !.manager_updated_at = now,
                           !.status = r.fstatus,
                           !.stage = "manager_done"]]
          /\ req' = [req EXCEPT ![p] = [r EXCEPT !.rows = 1, !.pc = "token"]]
     ELSE /\ UNCHANGED payments
          /\ Respond(p, [r EXCEPT !.rows = 0, !.err = "Payment request not found in manager stage"], 404)
  /\ UNCHANGED <<now, quotations, cachedToken, tokenExpiry, statedExpiry, orders>>

\* the 60 seconds taken off the stated lifetime, and the lifetime assumed when
\* the answer states none, in units of 60 seconds
RefreshMargin == 1
DefaultExpiresIn == 60
\* Number(data.expiresIn || data.expires_in || 3600); 0 stands for an answer
\* whose lifetime is absent or 0
ExpiresIn(stated) == IF stated = 0 THEN DefaultExpiresIn ELSE stated

\* mutant of the cache test: the token is reused until its stated expiry
TokenCached_UntilExpiry == cachedToken /\ now < tokenExpiry + RefreshMargin

\* getMedadToken: the cache test
TokenCached == cachedToken /\ now < tokenExpiry

\* mutant of the catch block: the sync status is not set
ManagerSyncThrew_NoStatus(r, message) ==
  [r EXCEPT !.pc = "syncwrite", !.merr = message, !.mbody = "error_object"]

\* the manager handler's catch block around the token and the POST
ManagerSyncThrew(r, message) ==
  [r EXCEPT !.pc = "syncwrite", !.msync = "FAILED", !.merr = message,
            !.mbody = "error_object"]

ManagerToken(p) ==
  /\ req[p].kind = "manager" /\ req[p].pc = "token"
  /\ LET r == req[p] IN
     IF TokenCached
     THEN /\ req' = [req EXCEPT ![p] = [r EXCEPT !.pc = "post"]]
          /\ UNCHANGED <<cachedToken, tokenExpiry, statedExpiry>>
     ELSE \E o \in TokenOutcomes, expiresIn \in ExpiresInInputs :
            IF o = "ok"
            THEN /\ cachedToken' = TRUE
                 /\ tokenExpiry' = now + (ExpiresIn(expiresIn) - RefreshMargin)
                 /\ statedExpiry' = now + ExpiresIn(expiresIn)
                 /\ req' = [req EXCEPT ![p] = [r EXCEPT !.pc = "post", !.http = r.http + 1]]
            ELSE /\ expiresIn = 1
                 /\ UNCHANGED <<cachedToken, tokenExpiry, statedExpiry>>
                 /\ req' = [req EXCEPT ![p] =
                       ManagerSyncThrew([r EXCEPT !.http = r.http + 1], o)]
  /\ UNCHANGED <<payments, now, quotations, orders>>

\* fetch(`${MEDAD_BASE_URL}/payment`) and the reading of its answer
ManagerPost(p) ==
  /\ req[p].kind = "manager" /\ req[p].pc = "post"
  /\ LET r == [req[p] EXCEPT !.http = @ + 1] IN
     \/ req' = [req EXCEPT ![p] = ManagerSyncThrew(r, "network_error")]
     \/ \E o \in PostOutcomes :
          LET ok == o[1]
              rawText == o[2]
          IN req' = [req EXCEPT ![p] =
            [r EXCEPT !.pc = "syncwrite", !.ok = ok, !.raw = rawText,
                      !.mbody = ParseBody(rawText),
                      !.msync = IF ok THEN "SENT_TO_MEDAD" ELSE "FAILED",
                      !.merr = IF ok THEN NULLTEXT ELSE PaymentErrorText(rawText)]]
  /\ UNCHANGED <<payments, now, quotations, cachedToken, tokenExpiry, statedExpiry, orders>>

\* UPDATE ... SET medad_* ... WHERE id = $5, then the 200 answer
ManagerSyncWrite(p) ==
  /\ req[p].kind = "manager" /\ req[p].pc = "syncwrite"
  /\ LET r == req[p] IN
     /\ payments' = [payments EXCEPT ![r.id] =
            [@ EXCEPT !.medad_payload = payments[r.id].manager_pay_amount,
                      !.medad_response = r.mbody,
                      !.medad_sync_status = r.msync,
                      !.medad_error = r.merr,
                      !.medad_synced_at = now]]
     /\ Respond(p, [r EXCEPT !.rmedad = r.msync], 200)
  /\ UNCHANGED <<now, quotations, cachedToken, tokenExpiry, statedExpiry, orders>>

\* the answer has been sent and the connection released: the slot is free
Finish(p) ==
  /\ req[p].pc = "done"
  /\ req' = [req EXCEPT ![p] = IdleReq]
  /\ UNCHANGED <<payments, now, quotations, cachedToken, tokenExpiry, statedExpiry, orders>>

Next ==
  \/ \E p \in Procs, amount \in AmountInputs, hasBeneficiary \in BOOLEAN :
       CreatePayment(p, amount, hasBeneficiary)
  \/ \E p \in Procs, id \in PaymentIdInputs, dueAmount \in DueInputs :
       AccountantStart(p, id, dueAmount)
  \/ \E p \in Procs : AccountantUpdate(p)
  \/ \E p \in Procs, id \in PaymentIdInputs, amountToPay \in PayInputs,
        priority \in PriorityInputs : ManagerStart(p, id, amountToPay, priority)
  \/ \E p \in Procs : ManagerSelect(p)
  \/ \E p \in Procs : ManagerUpdate(p)
  \/ \E p \in Procs : ManagerToken(p)
  \/ \E p \in Procs : ManagerPost(p)
  \/ \E p \in Procs : ManagerSyncWrite(p)
  \/ \E p \in Procs : Finish(p)

Spec == Init /\ [][Next]_vars

\* the UPDATE that records the sync outcome throws (a timeout, a lost
\* connection): the outer catch answers 500 and nothing is written
ManagerSyncWriteFail(p) ==
  /\ req[p].kind = "manager" /\ req[p].pc = "syncwrite"
  /\ Respond(p, [req[p] EXCEPT !.threw = TRUE,
                               !.err = "Failed to update payment request"], 500)
  /\ UNCHANGED <<payments, now, quotations, cachedToken, tokenExpiry, statedExpiry, orders>>

\* the payment workflow with database failures of the last statement
SyncNext ==
  \/ Next
  \/ \E p \in Procs : ManagerSyncWriteFail(p)

SyncSpec == Init /\ [][SyncNext]_vars

\* =================================================== orders and their invoice
\* the rows a statement sees: committed and not deleted
LiveOrders == {i \in 1..Len(orders) : ~orders[i].deleted}

\* generateCustomId of the order modules: the highest numeric part among the
\* custom ids of the year, plus one
generateCustomId ==
  FormatId(MaxOf({NumericTail(orders[i].custom_id) : i \in LiveOrders}) + 1)

\* the unique constraint on orders.custom_id
UniqueViolation(cid) == \E i \in LiveOrders : orders[i].custom_id = cid

\* creations that have passed validation and not yet ended
CreatesInFlight ==
  Cardinality({p \in Procs : req[p].kind = "order_create" /\ req[p].pc \in {"scan", "insert"}})

\* parseFloat(product.quantity || 1)
QuantityOr1(q) == IF q = 0 THEN 1 ELSE q

\* totalPrice += parseFloat(product.price) * parseFloat(product.quantity || 1)
RECURSIVE CreateTotalPrice(_)
CreateTotalPrice(products) ==
  IF products = <<>> THEN 0
  ELSE products[1].price * QuantityOr1(products[1].quantity) + CreateTotalPrice(Tail(products))

\* POST /orders validates each product: a zero or absent quantity or price
\* counts as missing
ProductMissingFields(products) ==
  \E i \in 1..Len(products) : products[i].quantity = 0 \/ products[i].price = 0

\* the retries executeWithRetry grants, and its first delay in milliseconds
Retries == 3
BaseDelay == 1000

RetriesOf(route) == IF route = "salesRep" THEN 0 ELSE Retries

\* if (retries > 0)
MayRetry(retries) == retries > 0

\* the catch block of executeWithRetry once the operation has thrown: wait
\* `delay`, then run the operation again with one retry less and twice the
\* delay; with no retry left the error goes to the handler's catch block,
\* which answers it with `code`
\* finally { if (client) client.release() }: the variable holds the client
\* of the last run only
ReleaseClient(r) == [r EXCEPT !.releases = IF r.connects > 0 THEN 1 ELSE 0]

executeWithRetry(p, r, error, code) ==
  IF MayRetry(r.retries)
  THEN req' = [req EXCEPT ![p] =
         [r EXCEPT !.pc = "scan", !.retries = @ - 1,
                   !.waited = Append(@, r.delay), !.delay = @ * 2]]
  ELSE Respond(p, ReleaseClient([r EXCEPT !.err = error]), code)

\* mutant of ROLLBACK: what the statements wrote stays
Rollback_Partial(before, partial) == partial

\* ROLLBACK on the client that ran the statements: nothing of what they
\* wrote remains
Rollback(before, partial) == before

\* POST /orders, POST /orders/salesRep, POST /orders/supervisor: validation of
\* the body and, for the latter two, the check of the client
CreateOrder(p, route, hasFields, clientCheck, body) ==
  /\ req[p].pc = "idle" /\ p = FirstIdle
  /\ IF ~hasFields \/ body.products = <<>>
     THEN Reject(p, "order_create", 400, "Missing required fields")
     ELSE IF route = "orders" /\ ProductMissingFields(body.products)
     THEN Reject(p, "order_create", 400, "Product is missing required fields")
     ELSE IF route # "orders" /\ clientCheck = "not_found"
     THEN Reject(p, "order_create", 404, "Client not found")
     ELSE IF route # "orders" /\ clientCheck = "no_tax_number"
     THEN Reject(p, "order_create", 400, "tax number required")
     ELSE req' = [req EXCEPT ![p] =
            [IdleReq EXCEPT !.kind = "order_create", !.pc = "scan", !.route = route,
                            !.body = body, !.retries = RetriesOf(route),
                            !.delay = BaseDelay]]
  /\ UNCHANGED <<payments, orders, now, quotations, cachedToken, tokenExpiry, statedExpiry>>

\* one run of the operation: client = await pool.connect(), BEGIN, the
\* delivery date, generateCustomId(client).
\* POST /orders parses the date itself and throws when it cannot; the other
\* routes format it unchecked and hand "Invalid date" to the INSERT.
CreateScan(p) ==
  /\ req[p].kind = "order_create" /\ req[p].pc = "scan"
  /\ LET r == [req[p] EXCEPT !.attempts = @ + 1, !.connects = @ + 1] IN
     IF r.route = "orders" /\ r.body.delivery_date = "unparseable"
     THEN executeWithRetry(p, r, "Invalid delivery date format", 400)
     ELSE req' = [req EXCEPT ![p] = [r EXCEPT !.pc = "insert", !.cid = generateCustomId,
                                              !.seen = Len(orders)]]
  /\ UNCHANGED <<payments, orders, now, quotations, cachedToken, tokenExpiry, statedExpiry>>

\* the row and the lines each route inserts
CreatedRow(r) ==
  LET base == [NewOrderRow EXCEPT !.status = r.body.status, !.custom_id = r.cid,
                                  !.total_price = CreateTotalPrice(r.body.products)]
  IN IF r.route = "orders"
     THEN [base EXCEPT !.products =
             [i \in 1..Len(r.body.products) |->
                Line(r.body.products[i].price, r.body.products[i].quantity, NULL, NULL)]]
     ELSE LET withBody ==
                [base EXCEPT !.total_vat = r.body.total_vat,
                             !.total_subtotal = r.body.total_subtotal,
                             !.products = r.body.products,
                             !.locations = r.body.deliveryLocations.list]
          IN IF r.route = "supervisor"
             THEN [withBody EXCEPT !.supervisoraccept = "accepted",
                                   !.supervisoraccept_at = now]
             ELSE withBody

\* the table as the first k - 1 statements of the creation leave it inside
\* the transaction: the order row, then its lines, then total_price
CreatePartial(r, k) ==
  LET full == CreatedRow(r) IN
  CASE k = 1 -> orders
    [] k = 2 -> Append(orders, [full EXCEPT !.products = <<>>, !.locations = <<>>,
                                            !.total_price = NULL])
    [] k = 3 -> Append(orders, [full EXCEPT !.total_price = NULL])

\* INSERT INTO orders, the products, the locations, total_price, COMMIT; a
\* duplicate custom_id fails the INSERT and rolls back
CreateInsert(p) ==
  /\ req[p].kind = "order_create" /\ req[p].pc = "insert"
  /\ LET r == req[p] IN
     IF r.body.delivery_date = "unparseable"
     THEN /\ orders' = Rollback(orders, CreatePartial(r, 1))
          /\ executeWithRetry(p, [r EXCEPT !.writes = @ + 1],
                              "invalid input syntax for type timestamp", 500)
     ELSE IF UniqueViolation(r.cid)
     THEN /\ orders' = Rollback(orders, CreatePartial(r, 1))
          /\ executeWithRetry(p, [r EXCEPT !.writes = @ + 1], "duplicate key", 500)
     ELSE /\ orders' = Append(orders, CreatedRow(r))
          /\ Respond(p, ReleaseClient([r EXCEPT !.id = Len(orders) + 1, !.rows = 1,
                                                !.writes = @ + 1]), 201)
  /\ UNCHANGED <<payments, now, quotations, cachedToken, tokenExpiry, statedExpiry>>

\* statement k of the creation (the order row, a line, total_price) times out
\* or loses its connection: the catch block issues ROLLBACK and rethrows
CreateFail(p, k) ==
  /\ req[p].kind = "order_create" /\ req[p].pc = "insert"
  /\ req[p].body.delivery_date = "valid"
  /\ ~UniqueViolation(req[p].cid)
  /\ orders' = Rollback(orders, CreatePartial(req[p], k))
  /\ executeWithRetry(p, [req[p] EXCEPT !.writes = @ + k], "timeout",
                      IF req[p].route = "salesRep" THEN 500 ELSE 503)
  /\ UNCHANGED <<payments, now, quotations, cachedToken, tokenExpiry, statedExpiry>>

\* the order is given its Medad customer, warehouse, salesman and product numbers
LinkOrderToMedad(id, link) ==
  /\ OrderExists(id)
  /\ orders[id].link = NoLink
  /\ orders' = [orders EXCEPT ![id].link = link]
  /\ UNCHANGED <<payments, req, now, quotations, cachedToken, tokenExpiry, statedExpiry>>

\* mutant of the notification step: a failed notification takes the
\* statement back
AfterNotification_Undone(before, after, notified) == IF notified THEN after ELSE before

\* the table once the notifications were awaited: the statement before them
\* ran and committed on its own, and the catch block writes nothing
AfterNotification(before, after, notified) == after

\* UPDATE orders SET <role>accept = 'accepted', <role>accept_at =
\* CURRENT_TIMESTAMP WHERE id = $1; the statement waits for a locked row.
\* The notification that follows is awaited inside the try: when it throws
\* the answer is 500.
Accept(p, k, id, row, notified) ==
  /\ req[p].pc = "idle" /\ p = FirstIdle
  /\ ~LockedByOther(id, p)
  /\ IF OrderExists(id)
     THEN /\ orders' = AfterNotification(orders, [orders EXCEPT ![id] = row], notified)
          /\ Respond(p, [IdleReq EXCEPT !.kind = k, !.id = id, !.rows = 1,
                                        !.threw = ~notified],
                     IF notified THEN 200 ELSE 500)
     ELSE /\ notified
          /\ UNCHANGED orders
          /\ Respond(p, [IdleReq EXCEPT !.kind = k, !.id = id, !.rows = 0,
                                        !.err = "Order not found"], 404)
  /\ UNCHANGED <<payments, now, quotations, cachedToken, tokenExpiry, statedExpiry>>

\* PUT /acceptStorekeeper/:id
AcceptStorekeeper(p, id, notified) ==
  Accept(p, "accept_storekeeper", id,
         IF OrderExists(id)
         THEN [orders[id] EXCEPT !.storekeeperaccept = "accepted",
                                 !.storekeeperaccept_at = now]
         ELSE NewOrderRow, notified)

\* PUT /acceptSupervisor/:id
AcceptSupervisor(p, id, notified) ==
  Accept(p, "accept_supervisor", id,
         IF OrderExists(id)
         THEN [orders[id] EXCEPT !.supervisoraccept = "accepted",
                                 !.supervisoraccept_at = now]
         ELSE NewOrderRow, notified)

\* PUT /acceptManager/:id
AcceptManager(p, id, notified) ==
  Accept(p, "accept_manager", id,
         IF OrderExists(id)
         THEN [orders[id] EXCEPT !.manageraccept = "accepted",
                                 !.manageraccept_at = now]
         ELSE NewOrderRow, notified)

\* --------------------------------------------------- PUT /delivered/:id
\* UPDATE orders SET status = 'Delivered' WHERE id = $1, whatever the row
\* holds; the row count is not looked at.  The notifications that follow are
\* awaited outside any try: when one throws the answer is 500.
Deliver(p, id, notified) ==
  /\ req[p].pc = "idle" /\ p = FirstIdle
  /\ ~LockedByOther(id, p)
  /\ orders' = AfterNotification(orders,
                  IF OrderExists(id) THEN [orders EXCEPT ![id].status = "Delivered"]
                  ELSE orders, notified)
  /\ Respond(p, [IdleReq EXCEPT !.kind = "deliver", !.id = id,
                                !.rows = IF OrderExists(id) THEN 1 ELSE 0,
                                !.threw = ~notified],
             IF notified THEN 200 ELSE 500)
  /\ UNCHANGED <<payments, now, quotations, cachedToken, tokenExpiry, statedExpiry>>

\* ----------------------------------------------------- PUT /orders/:id
\* mutant of the delivered test: the letter case is not folded
IsDelivered_CaseSensitive(status) == status = "Delivered"

\* (status || '').toLowerCase() === 'delivered'
IsDelivered(status) == Lower(status) = "delivered"

\* BEGIN; SELECT custom_id, status ... FOR UPDATE (waits for a locked row);
\* 404 when there is no row, 400 when it is delivered, both after ROLLBACK
LockAndCheck(p, k, id, body, deliveredError) ==
  /\ req[p].pc = "idle" /\ p = FirstIdle
  /\ ~LockedByOther(id, p)
  /\ LET r == [IdleReq EXCEPT !.kind = k, !.id = id, !.body = body] IN
     IF ~OrderExists(id)
     THEN /\ Respond(p, [r EXCEPT !.err = "Order not found"], 404)
          /\ UNCHANGED orders
     ELSE IF IsDelivered(orders[id].status)
     THEN /\ Respond(p, [r EXCEPT !.err = deliveredError], 400)
          /\ UNCHANGED orders
     ELSE /\ req' = [req EXCEPT ![p] =
                [r EXCEPT !.pc = "write", !.cid = orders[id].custom_id]]
          /\ orders' = [orders EXCEPT ![id].lockedBy = p]
  /\ UNCHANGED <<payments, now, quotations, cachedToken, tokenExpiry, statedExpiry>>

EditStart(p, id, body) ==
  LockAndCheck(p, "edit", id, body, "Cannot update an order that is already delivered")

\* the line the edit stores for a product of the body
EditedLine(product) ==
  LET totalPriceForProduct == product.price * product.quantity
      vat == Vat(totalPriceForProduct)
  IN Line(product.price, product.quantity, vat, totalPriceForProduct + vat)

EditedLines(products) == [i \in 1..Len(products) |-> EditedLine(products[i])]

\* the row after the edit's UPDATE, the replacement of the products when the
\* body has some, of the locations when the body has the array, and COMMIT
EditedRow(row, r) ==
  LET lines == EditedLines(r.body.products) IN
  [row EXCEPT !.status = r.body.status,
              !.storekeeperaccept = "pending", !.supervisoraccept = "pending",
              !.manageraccept = "pending",
              !.storekeeperaccept_at = NULL, !.supervisoraccept_at = NULL,
              !.manageraccept_at = NULL,
              !.custom_id = newCustomId(r.cid),
              !.total_price = SumOver(lines, "price"),
              !.total_vat = SumOver(lines, "vat"),
              !.total_subtotal = SumOver(lines, "subtotal"),
              !.products = IF lines # <<>> THEN lines ELSE row.products,
              !.locations = IF r.body.deliveryLocations.given
                            THEN r.body.deliveryLocations.list ELSE row.locations,
              !.lockedBy = 0]

\* UPDATE orders SET ... WHERE id = $12 AND LOWER(status) <> 'delivered'
EditCommit(p) ==
  /\ req[p].kind = "edit" /\ req[p].pc = "write"
  /\ LET r == req[p] IN
     IF IsDelivered(orders[r.id].status)
     THEN /\ orders' = [orders EXCEPT ![r.id].lockedBy = 0]
          /\ Respond(p, [r EXCEPT !.rows = 0, !.err = "Cannot update this order"], 400)
     ELSE /\ orders' = [orders EXCEPT ![r.id] = EditedRow(orders[r.id], r)]
          /\ Respond(p, [r EXCEPT !.rows = 1], 200)
  /\ UNCHANGED <<payments, now, quotations, cachedToken, tokenExpiry, statedExpiry>>

\* the row as the first k - 1 statements of the edit leave it inside the
\* transaction: the UPDATE of the order, then the products, then the locations
EditPartial(row, r, k) ==
  LET full == [EditedRow(row, r) EXCEPT !.lockedBy = row.lockedBy] IN
  CASE k = 1 -> row
    [] k = 2 -> [full EXCEPT !.products = row.products, !.locations = row.locations]
    [] k = 3 -> [full EXCEPT !.locations = row.locations]

\* statement k of the edit throws: the catch block issues ROLLBACK, which
\* also releases the row lock, and answers 500
EditFail(p, k) ==
  /\ req[p].kind = "edit" /\ req[p].pc = "write"
  /\ LET r == req[p]
         row == orders[r.id]
     IN /\ orders' = [orders EXCEPT ![r.id] =
               [Rollback(row, EditPartial(row, r, k)) EXCEPT !.lockedBy = 0]]
        /\ Respond(p, [r EXCEPT !.rows = 0, !.writes = k, !.threw = TRUE,
                                !.err = "Error updating order"], 500)
  /\ UNCHANGED <<payments, now, quotations, cachedToken, tokenExpiry, statedExpiry>>

\* the rows of a table after an INSERT was sent twice on the same client:
\* position i is stored once by each statement
InsertedTwice(rows, i) == SubSeq(rows, 1, i) \o SubSeq(rows, i, Len(rows))

EditTables == {"order_products", "order_locations"}

\* PUT /orders/:id in which the INSERT of item i of `table` exceeds the 10 s
\* of withTimeout.  Promise.race rejects and leaves client.query running;
\* executeWithRetry waits and sends the same INSERT again on the same client,
\* where it is queued behind the first.  Either the first completes (landed)
\* and both rows are in the transaction that COMMIT makes durable, or the
\* first fails, which aborts the transaction: every further statement is
\* refused, the retries run out, and the catch block rolls back and answers 500.
EditTimedOut(p, table, i, landed) ==
  /\ req[p].kind = "edit" /\ req[p].pc = "write"
  /\ LET r == req[p]
         row == orders[r.id]
         full == EditedRow(row, r)
         retried == [r EXCEPT !.attempts = @ + 1, !.waited = Append(@, BaseDelay)]
     IN /\ ~IsDelivered(row.status)
        /\ IF table = "order_products"
           THEN i \in 1..Len(r.body.products)
           ELSE r.body.deliveryLocations.given /\ i \in 1..Len(r.body.deliveryLocations.list)
        /\ IF landed
           THEN /\ orders' = [orders EXCEPT ![r.id] =
                     IF table = "order_products"
                     THEN [full EXCEPT !.products = InsertedTwice(@, i)]
                     ELSE [full EXCEPT !.locations = InsertedTwice(@, i)]]
                /\ Respond(p, [retried EXCEPT !.rows = 1], 200)
           ELSE /\ orders' = [orders EXCEPT ![r.id] =
                     [Rollback(row, full) EXCEPT !.lockedBy = 0]]
                /\ Respond(p, [retried EXCEPT !.rows = 0, !.threw = TRUE,
                                              !.err = "Database query timed out"], 500)
  /\ UNCHANGED <<payments, now, quotations, cachedToken, tokenExpiry, statedExpiry>>

\* -------------------------------------------------- DELETE /orders/:id
DeleteStart(p, id) ==
  LockAndCheck(p, "delete", id, NoBody, "Cannot delete an order that is already delivered")

\* DELETE FROM order_products, DELETE FROM orders, COMMIT.  The deleted row
\* is kept as a tombstone that no statement sees.
DeleteCommit(p) ==
  /\ req[p].kind = "delete" /\ req[p].pc = "write"
  /\ LET r == req[p] IN
     /\ orders' = [orders EXCEPT ![r.id] =
            [@ EXCEPT !.deleted = TRUE, !.products = <<>>, !.lockedBy = 0]]
     /\ Respond(p, [r EXCEPT !.rows = 1], 200)
  /\ UNCHANGED <<payments, now, quotations, cachedToken, tokenExpiry, statedExpiry>>

\* ------------------------------------------- POST /medad/invoice/:orderId
\* the order row with its joined Medad customer, then its products
InvoiceSelect(p, id) ==
  /\ req[p].pc = "idle" /\ p = FirstIdle
  /\ IF ~OrderExists(id)
     THEN Respond(p, [IdleReq EXCEPT !.kind = "invoice", !.id = id,
                                     !.err = "Order not found"], 404)
     ELSE req' = [req EXCEPT ![p] =
            [IdleReq EXCEPT !.kind = "invoice", !.id = id, !.pc = "products",
                            !.order = [orders[id].link EXCEPT
                                          !.medad_product_no = <<FALSE, FALSE>>]]]
  /\ UNCHANGED <<payments, orders, now, quotations, cachedToken, tokenExpiry, statedExpiry>>

InvoiceSelectProducts(p) ==
  /\ req[p].kind = "invoice" /\ req[p].pc = "products"
  /\ req' = [req EXCEPT ![p] =
        [@ EXCEPT !.pc = "check",
                  !.order = [@ EXCEPT !.medad_product_no =
                                          orders[req[p].id].link.medad_product_no]]]
  /\ UNCHANGED <<payments, orders, now, quotations, cachedToken, tokenExpiry, statedExpiry>>

missingCustomer(o) == ~o.client_medad_customer_id \/ ~o.medad_customer_id
missingWarehouse(o) == ~o.warehouse_no
missingSalesman(o) == ~o.medad_salesman_id
missingProduct(o) ==
  \E i \in 1..Len(o.medad_product_no) : ~o.medad_product_no[i]

\* mutant of the readiness test: the salesman is not looked at
NotReady_NoSalesman(o) == missingCustomer(o) \/ missingWarehouse(o) \/ missingProduct(o)

\* missingCustomer || missingWarehouse || missingSalesman || missingProduct
NotReady(o) ==
  missingCustomer(o) \/ missingWarehouse(o) \/ missingSalesman(o) \/ missingProduct(o)

Reasons(o) ==
  (IF missingCustomer(o) THEN <<"Missing linked Medad customer">> ELSE <<>>) \o
  (IF missingWarehouse(o) THEN <<"Missing warehouse_no">> ELSE <<>>) \o
  (IF missingSalesman(o) THEN <<"Missing medad_salesman_id">> ELSE <<>>) \o
  (IF missingProduct(o) THEN <<"One or more products missing medad_product_no">> ELSE <<>>)

InvoiceCheck(p) ==
  /\ req[p].kind = "invoice" /\ req[p].pc = "check"
  /\ ~LockedByOther(req[p].id, p)
  /\ LET r == req[p] IN
     IF NotReady(r.order)
     THEN /\ orders' = [orders EXCEPT ![r.id] =
                 [@ EXCEPT !.medad_sync_status = "FAILED",
                           !.medad_error = Reasons(r.order),
                           !.medad_synced_at = now]]
          /\ Respond(p, [r EXCEPT !.err = "Order not ready for Medad"], 400)
     ELSE /\ orders' = [orders EXCEPT ![r.id] =
                 [@ EXCEPT !.medad_sync_status = "READY_FOR_MEDAD",
                           !.medad_error = <<>>]]
          /\ req' = [req EXCEPT ![p] = [r EXCEPT !.pc = "token"]]
  /\ UNCHANGED <<payments, now, quotations, cachedToken, tokenExpiry, statedExpiry>>

\* the handler's outer catch: 500, nothing written
InvoiceThrew(r, message) ==
  [r EXCEPT !.pc = "done", !.resp = 500, !.threw = TRUE, !.err = message]

InvoiceToken(p) ==
  /\ req[p].kind = "invoice" /\ req[p].pc = "token"
  /\ LET r == req[p] IN
     IF TokenCached
     THEN /\ req' = [req EXCEPT ![p] = [r EXCEPT !.pc = "post"]]
          /\ UNCHANGED <<cachedToken, tokenExpiry, statedExpiry>>
     ELSE \E o \in TokenOutcomes, expiresIn \in ExpiresInInputs :
            IF o = "ok"
            THEN /\ cachedToken' = TRUE
                 /\ tokenExpiry' = now + (ExpiresIn(expiresIn) - RefreshMargin)
                 /\ statedExpiry' = now + ExpiresIn(expiresIn)
                 /\ req' = [req EXCEPT ![p] = [r EXCEPT !.pc = "post", !.http = r.http + 1]]
            ELSE /\ expiresIn = 1
                 /\ UNCHANGED <<cachedToken, tokenExpiry, statedExpiry>>
                 /\ req' = [req EXCEPT ![p] =
                       InvoiceThrew([r EXCEPT !.http = r.http + 1], o)]
  /\ UNCHANGED <<payments, orders, now, quotations>>

\* fetch(`${MEDAD_BASE_URL}/invoice`), then response.text() or response.json()
InvoicePost(p) ==
  /\ req[p].kind = "invoice" /\ req[p].pc = "post"
  /\ LET r == [req[p] EXCEPT !.http = @ + 1] IN
     \/ req' = [req EXCEPT ![p] = InvoiceThrew(r, "network_error")]
     \/ \E o \in PostOutcomes :
          LET ok == o[1]
              rawText == o[2]
          IN req' = [req EXCEPT ![p] =
               IF ~ok THEN [r EXCEPT !.pc = "failwrite", !.ok = FALSE, !.raw = rawText]
               ELSE IF rawText = "json"
                    THEN [r EXCEPT !.pc = "sentwrite", !.ok = TRUE, !.raw = rawText]
               ELSE InvoiceThrew([r EXCEPT !.ok = TRUE, !.raw = rawText], "bad_json")]
  /\ UNCHANGED <<payments, orders, now, quotations, cachedToken, tokenExpiry, statedExpiry>>

\* UPDATE orders SET medad_sync_status = 'FAILED', medad_error = text; 502
InvoiceFailWrite(p) ==
  /\ req[p].kind = "invoice" /\ req[p].pc = "failwrite"
  /\ ~LockedByOther(req[p].id, p)
  /\ LET r == req[p] IN
     /\ orders' = [orders EXCEPT ![r.id] =
            [@ EXCEPT !.medad_sync_status = "FAILED",
                      !.medad_error = <<r.raw>>,
                      !.medad_synced_at = now]]
     /\ Respond(p, [r EXCEPT !.err = "Medad invoice failed"], 502)
  /\ UNCHANGED <<payments, now, quotations, cachedToken, tokenExpiry, statedExpiry>>

\* UPDATE orders SET medad_sync_status = 'SENT_TO_MEDAD', ...; 200
InvoiceSentWrite(p) ==
  /\ req[p].kind = "invoice" /\ req[p].pc = "sentwrite"
  /\ ~LockedByOther(req[p].id, p)
  /\ LET r == req[p] IN
     /\ orders' = [orders EXCEPT ![r.id] =
            [@ EXCEPT !.medad_sync_status = "SENT_TO_MEDAD",
                      !.medad_order_no = "orderNo",
                      !.medad_error = <<>>,
                      !.medad_synced_at = now]]
     /\ Respond(p, r, 200)
  /\ UNCHANGED <<payments, now, quotations, cachedToken, tokenExpiry, statedExpiry>>

\* the table has room for one more order below the bound
Room(max) == Len(orders) + CreatesInFlight < max

OrderNext ==
  \/ \E p \in Procs, hasFields \in BOOLEAN :
       Room(MaxOrders) /\ CreateOrder(p, "salesRep", hasFields, "ok", DefaultBody)
  \/ \E p \in Procs : CreateScan(p)
  \/ \E p \in Procs : CreateInsert(p)
  \/ \E id \in OrderIdInputs, link \in LinkInputs : LinkOrderToMedad(id, link)
  \/ \E p \in Procs, id \in OrderIdInputs, notified \in BOOLEAN :
       AcceptStorekeeper(p, id, notified)
  \/ \E p \in Procs, id \in OrderIdInputs, notified \in BOOLEAN :
       AcceptSupervisor(p, id, notified)
  \/ \E p \in Procs, id \in OrderIdInputs, notified \in BOOLEAN :
       AcceptManager(p, id, notified)
  \/ \E p \in Procs, id \in OrderIdInputs : InvoiceSelect(p, id)
  \/ \E p \in Procs : InvoiceSelectProducts(p)
  \/ \E p \in Procs : InvoiceCheck(p)
  \/ \E p \in Procs : InvoiceToken(p)
  \/ \E p \in Procs : InvoicePost(p)
  \/ \E p \in Procs : InvoiceFailWrite(p)
  \/ \E p \in Procs : InvoiceSentWrite(p)
  \/ \E p \in Procs : Finish(p)

OrderSpec == Init /\ [][OrderNext]_vars

\* ====================================================== the life of an order
Routes == {"orders", "salesRep", "supervisor"}
ClientChecks == {"ok", "not_found", "no_tax_number"}
StatusInputs == {"not Delivered", "delivered"}

\* an edit is offered while the revision is below the bound
MayEdit(id) == OrderExists(id) => orders[id].custom_id.rev < MaxRev

LifeNext ==
  \/ \E p \in Procs, route \in {"salesRep", "supervisor"}, hasFields \in BOOLEAN,
        clientCheck \in ClientChecks :
       Room(MaxOrders) /\ CreateOrder(p, route, hasFields, clientCheck, DefaultBody)
  \/ \E p \in Procs : CreateScan(p)
  \/ \E p \in Procs : CreateInsert(p)
  \/ \E p \in Procs, id \in OrderIdInputs, notified \in BOOLEAN :
       AcceptStorekeeper(p, id, notified)
  \/ \E p \in Procs, id \in OrderIdInputs, notified \in BOOLEAN :
       AcceptSupervisor(p, id, notified)
  \/ \E p \in Procs, id \in OrderIdInputs, notified \in BOOLEAN :
       AcceptManager(p, id, notified)
  \/ \E p \in Procs, id \in OrderIdInputs, notified \in BOOLEAN : Deliver(p, id, notified)
  \/ \E p \in Procs, id \in OrderIdInputs, status \in StatusInputs :
       MayEdit(id) /\ EditStart(p, id, [DefaultBody EXCEPT !.status = status])
  \/ \E p \in Procs : EditCommit(p)
  \/ \E p \in Procs, id \in OrderIdInputs : DeleteStart(p, id)
  \/ \E p \in Procs : DeleteCommit(p)
  \/ \E p \in Procs : Finish(p)

LifeSpec == Init /\ [][LifeNext]_vars

\* ------------------------------------------------- the sequence ids of orders
IdOrderInputs == 1..MaxIdOrders

IdNext ==
  \/ \E p \in Procs, route \in {"orders", "salesRep"}, hasFields \in BOOLEAN :
       Room(MaxIdOrders) /\ CreateOrder(p, route, hasFields, "ok", DefaultBody)
  \/ \E p \in Procs : CreateScan(p)
  \/ \E p \in Procs : CreateInsert(p)
  \/ \E p \in Procs, id \in IdOrderInputs : MayEdit(id) /\ EditStart(p, id, DefaultBody)
  \/ \E p \in Procs : EditCommit(p)
  \/ \E p \in Procs, id \in IdOrderInputs : DeleteStart(p, id)
  \/ \E p \in Procs : DeleteCommit(p)
  \/ \E p \in Procs : Finish(p)

IdSpec == Init /\ [][IdNext]_vars

\* ------------------------------------------------------ the totals of orders
ProductInputs == {<<GoodLine>>, <<UnitVatLine>>, <<GoodLine, Line(200, 1, 30, 230)>>}

\* total_vat and total_subtotal as the body of a create states them
TotalInputs == {<<30, 230>>, <<0, 0>>}

CreateBodies ==
  {[DefaultBody EXCEPT !.products = products, !.total_vat = totals[1],
                       !.total_subtotal = totals[2]] :
     products \in ProductInputs, totals \in TotalInputs}

EditBodies ==
  {[DefaultBody EXCEPT !.products = products,
                       !.deliveryLocations = [given |-> given, list |-> <<"site">>]] :
     products \in ProductInputs \cup {<<>>}, given \in BOOLEAN}

TotalsNext ==
  \/ \E p \in Procs, route \in Routes, body \in CreateBodies :
       Room(MaxOrders) /\ CreateOrder(p, route, TRUE, "ok", body)
  \/ \E p \in Procs : CreateScan(p)
  \/ \E p \in Procs : CreateInsert(p)
  \/ \E p \in Procs, id \in OrderIdInputs, body \in EditBodies :
       MayEdit(id) /\ EditStart(p, id, body)
  \/ \E p \in Procs : EditCommit(p)
  \/ \E p \in Procs : Finish(p)

TotalsSpec == Init /\ [][TotalsNext]_vars

\* ================================================================ quotations
NewQuotationRow ==
  [ status |-> "not Delivered", custom_id |-> NoCustomId,
    storekeeperaccept |-> "pending", supervisoraccept |-> "pending",
    manageraccept |-> "pending",
    storekeeperaccept_at |-> NULL, supervisoraccept_at |-> NULL,
    manageraccept_at |-> NULL,
    total_price |-> 0, total_vat |-> 0, total_subtotal |-> 0, products |-> <<>> ]

\* generateCustomId of the quotation modules: the highest value of the five
\* characters that follow "NPQ-YYYY-", plus one
generateQuotationId ==
  FormatId(MaxOf({Substring10For5(quotations[i].custom_id) : i \in 1..Len(quotations)}) + 1)

\* the statement of the generator raises when the cast of one row does
IntegerSyntaxError == "invalid input syntax for type integer"

generateQuotationIdRaises ==
  \E i \in 1..Len(quotations) : IntCastRaises(quotations[i].custom_id)

\* the unique constraint on quotations.custom_id
QuotationUniqueViolation(cid) ==
  \E i \in 1..Len(quotations) : quotations[i].custom_id = cid

QuotationsInFlight ==
  Cardinality({p \in Procs : req[p].kind = "quotation_create" /\ req[p].pc = "insert"})

\* the checks of the product loop, in their order
ProductError(product) ==
  IF product.quantity = 0 \/ product.price = 0 THEN "Missing product details"
  ELSE IF product.price <= 0 THEN "Invalid price format"
  ELSE IF product.quantity <= 0 THEN "Invalid quantity"
  ELSE ""

\* index of the first product the loop throws on, 0 when there is none
FirstInvalid(products) ==
  IF \E i \in 1..Len(products) : ProductError(products[i]) # ""
  THEN CHOOSE i \in 1..Len(products) :
         /\ ProductError(products[i]) # ""
         /\ \A j \in 1..(i - 1) : ProductError(products[j]) = ""
  ELSE 0

\* the line a quotation stores: vat and subtotal of one unit
QuotationLine(product) ==
  LET vat == Vat(product.price)
  IN Line(product.price, product.quantity, vat, product.price + vat)

RECURSIVE QuotationTotal(_, _)
QuotationTotal(products, field) ==
  IF products = <<>> THEN 0
  ELSE QuotationTotal(Tail(products), field) +
       (CASE field = "price" -> products[1].price * products[1].quantity
          [] field = "vat" -> QuotationLine(products[1]).vat * products[1].quantity
          [] field = "subtotal" -> QuotationLine(products[1]).subtotal * products[1].quantity)

\* POST /quotations (route manager) and POST /quotations/supervisor: BEGIN,
\* the check of the required fields, then generateCustomId(client)
QuotationCreate(p, route, hasFields, body) ==
  /\ req[p].pc = "idle" /\ p = FirstIdle
  /\ IF ~hasFields \/ body.products = <<>>
     THEN Reject(p, "quotation_create", IF route = "manager" THEN 400 ELSE 500,
                 "Missing required fields")
     ELSE IF generateQuotationIdRaises
     THEN Respond(p, [IdleReq EXCEPT !.kind = "quotation_create", !.route = route,
                                     !.body = body, !.threw = TRUE,
                                     !.err = IntegerSyntaxError], 500)
     ELSE req' = [req EXCEPT ![p] =
            [IdleReq EXCEPT !.kind = "quotation_create", !.pc = "insert",
                            !.route = route, !.body = body, !.cid = generateQuotationId,
                            !.seen = Len(quotations)]]
  /\ UNCHANGED <<payments, orders, now, quotations, cachedToken, tokenExpiry, statedExpiry>>

\* the table as the quotation's statements leave it inside the transaction
\* when the check of line `bad` throws: the quotation with totals 0 and the
\* lines before that one
QuotationPartial(r, bad) ==
  Append(quotations,
         [NewQuotationRow EXCEPT
            !.status = r.body.status, !.custom_id = r.cid,
            !.products = [i \in 1..(bad - 1) |-> QuotationLine(r.body.products[i])]])

\* INSERT INTO quotations, then the product loop with its checks, the totals,
\* COMMIT and the awaited notification; a throw rolls back and answers 500
QuotationInsert(p, notified) ==
  /\ req[p].kind = "quotation_create" /\ req[p].pc = "insert"
  /\ LET r == req[p]
         products == r.body.products
         bad == FirstInvalid(products)
     IN IF QuotationUniqueViolation(r.cid)
        THEN /\ notified
             /\ UNCHANGED quotations
             /\ Respond(p, [r EXCEPT !.err = "duplicate key", !.writes = 1,
                                     !.threw = TRUE], 500)
        ELSE IF bad # 0
        THEN /\ notified
             /\ quotations' = Rollback(quotations, QuotationPartial(r, bad))
             /\ Respond(p, [r EXCEPT !.err = ProductError(products[bad]),
                                     !.writes = bad, !.threw = TRUE], 500)
        ELSE /\ quotations' = Append(quotations,
                  [NewQuotationRow EXCEPT
                     !.status = r.body.status, !.custom_id = r.cid,
                     !.manageraccept =
                        IF r.route = "manager" THEN "accepted" ELSE "pending",
                     !.supervisoraccept =
                        IF r.route = "supervisor" THEN "accepted" ELSE "pending",
                     !.manageraccept_at = IF r.route = "manager" THEN now ELSE NULL,
                     !.supervisoraccept_at =
                        IF r.route = "supervisor" THEN now ELSE NULL,
                     !.total_price = QuotationTotal(products, "price"),
                     !.total_vat = QuotationTotal(products, "vat"),
                     !.total_subtotal = QuotationTotal(products, "subtotal"),
                     !.products = [i \in 1..Len(products) |-> QuotationLine(products[i])]])
             /\ Respond(p, [r EXCEPT !.id = Len(quotations) + 1, !.rows = 1,
                                     !.writes = Len(products) + 2, !.threw = ~notified],
                        IF notified THEN 201 ELSE 500)
  /\ UNCHANGED <<payments, orders, now, cachedToken, tokenExpiry, statedExpiry>>

\* ------------------------- PUT /accept<Role>Quotation/:id, /rejectedQuotation/:id
QuotationExists(id) == id \in 1..Len(quotations)

QuotationRoles == {"storekeeper", "supervisor", "manager"}

\* UPDATE quotations SET <role>accept = 'accepted' WHERE id = $1; the
\* supervisor's and the manager's statements also set <role>accept_at =
\* CURRENT_TIMESTAMP, the storekeeper's does not
AcceptedQuotation(row, role) ==
  CASE role = "storekeeper" -> [row EXCEPT !.storekeeperaccept = "accepted"]
    [] role = "supervisor" -> [row EXCEPT !.supervisoraccept = "accepted",
                                          !.supervisoraccept_at = now]
    [] role = "manager" -> [row EXCEPT !.manageraccept = "accepted",
                                       !.manageraccept_at = now]

\* UPDATE quotations SET status = 'rejected', the three flags = 'pending'
\* WHERE id = $2
RejectedQuotation(row) ==
  [row EXCEPT !.status = "rejected", !.storekeeperaccept = "pending",
              !.supervisoraccept = "pending", !.manageraccept = "pending"]

\* one UPDATE by id, 404 when it matched no row, then the awaited
\* notification inside the try: when it throws the answer is 500
QuotationUpdate(p, k, id, row, notified) ==
  /\ req[p].pc = "idle" /\ p = FirstIdle
  /\ IF QuotationExists(id)
     THEN /\ quotations' = AfterNotification(quotations,
                               [quotations EXCEPT ![id] = row], notified)
          /\ Respond(p, [IdleReq EXCEPT !.kind = k, !.id = id, !.rows = 1,
                                        !.threw = ~notified],
                     IF notified THEN 200 ELSE 500)
     ELSE /\ notified
          /\ UNCHANGED quotations
          /\ Respond(p, [IdleReq EXCEPT !.kind = k, !.id = id, !.rows = 0,
                                        !.err = "Quotation not found"], 404)
  /\ UNCHANGED <<payments, orders, now, cachedToken, tokenExpiry, statedExpiry>>

QuotationAccept(p, role, id, notified) ==
  QuotationUpdate(p, "quotation_accept", id,
                  IF QuotationExists(id) THEN AcceptedQuotation(quotations[id], role)
                  ELSE NewQuotationRow, notified)

QuotationReject(p, id, notified) ==
  QuotationUpdate(p, "quotation_reject", id,
                  IF QuotationExists(id) THEN RejectedQuotation(quotations[id])
                  ELSE NewQuotationRow, notified)

\* the bodies offered to the quotation routes: valid lines, a line with a
\* zero price after a valid one, a line with a negative price
QuotationBodies ==
  {[DefaultBody EXCEPT !.products = products] :
     products \in {<<GoodLine>>, <<GoodLine, ZeroPriceLine>>, <<NegativeLine>>}}

\* the table of the year when the run starts: empty, or holding the quotation
\* numbered 99999
LastOfFiveDigits == (10 ^ PadWidth) - 1

InitialQuotations ==
  { <<>>, <<[NewQuotationRow EXCEPT !.custom_id = FormatId(LastOfFiveDigits)]>> }

QuoteInit ==
  /\ payments = <<>>
  /\ req = [p \in Procs |-> IdleReq]
  /\ now = 0
  /\ cachedToken = FALSE
  /\ tokenExpiry = 0
  /\ statedExpiry = 0
  /\ orders = <<>>
  /\ quotations \in InitialQuotations

QuoteNext ==
  \/ \E p \in Procs, route \in {"manager", "supervisor"}, hasFields \in BOOLEAN,
        body \in QuotationBodies :
       /\ Len(quotations) + QuotationsInFlight < MaxQuotations
       /\ QuotationCreate(p, route, hasFields, body)
  \/ \E p \in Procs, notified \in BOOLEAN : QuotationInsert(p, notified)
  \/ \E p \in Procs : Finish(p)

QuoteSpec == QuoteInit /\ [][QuoteNext]_vars

\* ------------------------------ requests that are followed by a notification
QuotationIdInputs == 1..MaxLifeQuotations

NotifyNext ==
  \/ \E p \in Procs, route \in {"manager", "supervisor"} :
       /\ Len(quotations) + QuotationsInFlight < MaxLifeQuotations
       /\ QuotationCreate(p, route, TRUE, DefaultBody)
  \/ \E p \in Procs, notified \in BOOLEAN : QuotationInsert(p, notified)
  \/ \E p \in Procs, role \in QuotationRoles, id \in QuotationIdInputs,
        notified \in BOOLEAN : QuotationAccept(p, role, id, notified)
  \/ \E p \in Procs, id \in QuotationIdInputs, notified \in BOOLEAN :
       QuotationReject(p, id, notified)
  \/ \E p \in Procs :
       Room(MaxOrders) /\ CreateOrder(p, "salesRep", TRUE, "ok", DefaultBody)
  \/ \E p \in Procs : CreateScan(p)
  \/ \E p \in Procs : CreateInsert(p)
  \/ \E p \in Procs, id \in OrderIdInputs, notified \in BOOLEAN :
       AcceptManager(p, id, notified)
  \/ \E p \in Procs, id \in OrderIdInputs, notified \in BOOLEAN :
       Deliver(p, id, notified)
  \/ \E p \in Procs : Finish(p)

NotifySpec == Init /\ [][NotifyNext]_vars

\* --------------------------- transactions whose statements fail, and retries
Statements == 1..3

TxNext ==
  \/ \E p \in Procs, route \in Routes, body \in {DefaultBody, BadDateBody} :
       Room(MaxOrders) /\ CreateOrder(p, route, TRUE, "ok", body)
  \/ \E p \in Procs : CreateScan(p)
  \/ \E p \in Procs : CreateInsert(p)
  \/ \E p \in Procs, k \in Statements : CreateFail(p, k)
  \/ \E p \in Procs, id \in OrderIdInputs, given \in BOOLEAN :
       /\ MayEdit(id)
       /\ EditStart(p, id, [DefaultBody EXCEPT
              !.products = <<UnitVatLine>>,
              !.deliveryLocations = [given |-> given, list |-> <<"site">>]])
  \/ \E p \in Procs : EditCommit(p)
  \/ \E p \in Procs, k \in Statements : EditFail(p, k)
  \/ \E p \in Procs, route \in {"manager", "supervisor"}, body \in QuotationBodies :
       /\ Len(quotations) + QuotationsInFlight < MaxLifeQuotations
       /\ QuotationCreate(p, route, TRUE, body)
  \/ \E p \in Procs : QuotationInsert(p, TRUE)
  \/ \E p \in Procs : Finish(p)

TxSpec == Init /\ [][TxNext]_vars

\* ------------------------------- edits whose statements exceed the timeout
TimedEditBodies ==
  { [DefaultBody EXCEPT !.products = lines,
                        !.deliveryLocations = [given |-> given, list |-> <<"site">>]] :
      lines \in {<<UnitVatLine>>, <<UnitVatLine, GoodLine>>}, given \in BOOLEAN }

TimeoutNext ==
  \/ \E p \in Procs, route \in Routes :
       Room(MaxOrders) /\ CreateOrder(p, route, TRUE, "ok", DefaultBody)
  \/ \E p \in Procs : CreateScan(p)
  \/ \E p \in Procs : CreateInsert(p)
  \/ \E p \in Procs, id \in OrderIdInputs, body \in TimedEditBodies :
       MayEdit(id) /\ EditStart(p, id, body)
  \/ \E p \in Procs : EditCommit(p)
  \/ \E p \in Procs, table \in EditTables, i \in 1..2, landed \in BOOLEAN :
       EditTimedOut(p, table, i, landed)
  \/ \E p \in Procs : Finish(p)

TimeoutSpec == Init /\ [][TimeoutNext]_vars

\* ------------------------------ creations and edits whose lines are invalid
LineNext ==
  \/ \E p \in Procs, route \in Routes, body \in QuotationBodies :
       Room(MaxOrders) /\ CreateOrder(p, route, TRUE, "ok", body)
  \/ \E p \in Procs : CreateScan(p)
  \/ \E p \in Procs : CreateInsert(p)
  \/ \E p \in Procs, id \in OrderIdInputs, body \in QuotationBodies :
       MayEdit(id) /\ EditStart(p, id, body)
  \/ \E p \in Procs : EditCommit(p)
  \/ \E p \in Procs, route \in {"manager", "supervisor"}, body \in QuotationBodies :
       /\ Len(quotations) + QuotationsInFlight < MaxLifeQuotations
       /\ QuotationCreate(p, route, TRUE, body)
  \/ \E p \in Procs : QuotationInsert(p, TRUE)
  \/ \E p \in Procs : Finish(p)

LineSpec == Init /\ [][LineNext]_vars

\* ------------------------------- tables that hold ids written by other hands
\* "00007 Rev2", "0001A" and "ABC" after the prefix
LegacyIds ==
  { [digits |-> <<0, 0, 0, 0, 7>>, rev |-> 2],
    [digits |-> <<0, 0, 0, 1, LetterChar>>, rev |-> 0],
    [digits |-> <<LetterChar, LetterChar, LetterChar>>, rev |-> 0] }

LegacyInit ==
  /\ payments = <<>>
  /\ req = [p \in Procs |-> IdleReq]
  /\ now = 0
  /\ cachedToken = FALSE
  /\ tokenExpiry = 0
  /\ statedExpiry = 0
  /\ orders \in {<<[NewOrderRow EXCEPT !.custom_id = cid]>> : cid \in LegacyIds}
  /\ quotations \in {<<[NewQuotationRow EXCEPT !.custom_id = cid]>> : cid \in LegacyIds}

LegacyNext ==
  \/ \E p \in Procs, route \in Routes :
       Room(MaxLegacyRows) /\ CreateOrder(p, route, TRUE, "ok", DefaultBody)
  \/ \E p \in Procs : CreateScan(p)
  \/ \E p \in Procs : CreateInsert(p)
  \/ \E p \in Procs, route \in {"manager", "supervisor"} :
       /\ Len(quotations) + QuotationsInFlight < MaxLegacyRows
       /\ QuotationCreate(p, route, TRUE, DefaultBody)
  \/ \E p \in Procs : QuotationInsert(p, TRUE)
  \/ \E p \in Procs : Finish(p)

LegacySpec == LegacyInit /\ [][LegacyNext]_vars

\* ====================================================== the token provider
\* time is counted in units of 60 seconds
TickInputs == {1, 58}
\* the lifetime stated by the answer of POST /getToken; 0: none stated
StatedLifetimes == {0, 1, 2, 3}

\* time passes between two steps of the handlers
Tick(d) ==
  /\ now + d <= MaxNow
  /\ now' = now + d
  /\ UNCHANGED <<payments, req, cachedToken, tokenExpiry, statedExpiry, orders, quotations>>

\* ------------------------------------------------------ GET /medad/salesmen
SalesmenStart(p) ==
  /\ req[p].pc = "idle" /\ p = FirstIdle
  /\ req' = [req EXCEPT ![p] = [IdleReq EXCEPT !.kind = "salesmen", !.pc = "token"]]
  /\ UNCHANGED <<payments, now, cachedToken, tokenExpiry, statedExpiry, orders, quotations>>

\* getMedadToken up to its first await: the cached token is returned, or the
\* request for a new one is sent
SalesmenToken(p) ==
  /\ req[p].kind = "salesmen" /\ req[p].pc = "token"
  /\ req' = [req EXCEPT ![p] =
        IF TokenCached THEN [@ EXCEPT !.pc = "post"]
        ELSE [@ EXCEPT !.pc = "fetching", !.http = @ + 1]]
  /\ UNCHANGED <<payments, now, cachedToken, tokenExpiry, statedExpiry, orders, quotations>>

\* getMedadToken after the answer of POST /getToken: it throws before it
\* assigns, or it replaces the cached token and its expiry
SalesmenTokenAnswer(p, o, stated) ==
  /\ req[p].kind = "salesmen" /\ req[p].pc = "fetching"
  /\ IF o = "ok"
     THEN /\ cachedToken' = TRUE
          /\ tokenExpiry' = now + (ExpiresIn(stated) - RefreshMargin)
          /\ statedExpiry' = now + ExpiresIn(stated)
          /\ req' = [req EXCEPT ![p] = [@ EXCEPT !.pc = "post"]]
     ELSE /\ stated = 0
          /\ UNCHANGED <<cachedToken, tokenExpiry, statedExpiry>>
          /\ Respond(p, [req[p] EXCEPT !.threw = TRUE, !.err = o], 500)
  /\ UNCHANGED <<payments, now, orders, quotations>>

\* the pages of GET /customers read with the token, and the answer
SalesmenList(p, ok) ==
  /\ req[p].kind = "salesmen" /\ req[p].pc = "post"
  /\ Respond(p, [req[p] EXCEPT !.http = @ + 1, !.ok = ok, !.threw = ~ok],
             IF ok THEN 200 ELSE 500)
  /\ UNCHANGED <<payments, now, cachedToken, tokenExpiry, statedExpiry, orders, quotations>>

TokenNext ==
  \/ \E p \in Procs : SalesmenStart(p)
  \/ \E p \in Procs : SalesmenToken(p)
  \/ \E p \in Procs, o \in TokenOutcomes, stated \in StatedLifetimes :
       SalesmenTokenAnswer(p, o, stated)
  \/ \E p \in Procs, ok \in BOOLEAN : SalesmenList(p, ok)
  \/ \E p \in Procs : Finish(p)
  \/ \E d \in TickInputs : Tick(d)

TokenSpec == Init /\ [][TokenNext]_vars

\* ================================================================ claims
Roles == {"accountant", "manager"}

\* the stage a role expects to find, and the one it moves the record to
ExpectedStage(k) == IF k = "accountant" THEN "accountant" ELSE "manager"
TargetStage(k) == IF k = "accountant" THEN "manager" ELSE "manager_done"

InStage(id, st) == Exists(id) /\ payments[id].stage = st

\* slot p executes its conditional UPDATE in this step
RunsUpdate(p) == req[p].kind \in Roles /\ req[p].pc = "update" /\ req'[p].pc # "update"

\* C1: of the transition requests of one role on one payment request, the one
\* whose conditional UPDATE finds the record in the expected stage commits it,
\* every other one updates zero rows, answers 404 and leaves the table as it
\* was, and no two of them ever both commit.
C1_ExactlyOneCommits ==
  [][ /\ \A p \in Procs : RunsUpdate(p) =>
           IF InStage(req[p].id, ExpectedStage(req[p].kind))
           THEN /\ req'[p].rows = 1
                /\ req'[p].resp # 404
                /\ payments'[req[p].id].stage = TargetStage(req[p].kind)
           ELSE /\ req'[p].rows = 0
                /\ req'[p].resp = 404
                /\ payments' = payments
      /\ \A p, q \in Procs :
           (p # q /\ req'[p].kind \in Roles /\ req'[p].kind = req'[q].kind
                  /\ req'[p].id = req'[q].id)
             => ~(req'[p].rows = 1 /\ req'[q].rows = 1)
    ]_vars

\* two overlapping manager requests on one record: one has committed and is
\* still being served, the other has lost with 404
C1_Witness ==
  \E p, q \in Procs :
    /\ p # q
    /\ req[p].kind = "manager" /\ req[q].kind = "manager" /\ req[p].id = req[q].id
    /\ req[p].rows = 1 /\ req[p].pc \in {"token", "post", "syncwrite"}
    /\ req[q].rows = 0 /\ req[q].pc = "done" /\ req[q].resp = 404

\* a manager request that got as far as the ceiling check, and is answered
ManagerChecked(p) ==
  req[p].kind = "manager" /\ req[p].pc = "done" /\ IsSet(req[p].due) /\ req[p].due > 0

\* C2 as claimed: the manager PATCH is rejected with 400 exactly when A > D and
\* otherwise stores remaining_amount = D - A, payment_state partial iff the
\* remainder is positive, and the matching status.
C2_ManagerAmounts_AsClaimed ==
  \A p \in Procs : ManagerChecked(p) =>
    LET A == req[p].amt
        D == req[p].due
        row == payments[req[p].id]
    IN /\ (A > D) <=> (req[p].resp = 400)
       /\ req[p].rows = 1 =>
            /\ row.manager_pay_amount = A
            /\ row.remaining_amount = D - A
            /\ row.payment_state = (IF D - A > 0 THEN "partial" ELSE "full")
            /\ row.status = (IF D - A > 0 THEN "approved_manager_partial"
                                          ELSE "approved_manager")

\* C2 amended: rejected with 400 exactly when A > D; otherwise the stored
\* remainder is D - A rounded to whole hundredths, and payment_state / status
\* are partial / approved_manager_partial iff that rounded remainder is positive.
C2_ManagerAmounts ==
  \A p \in Procs : ManagerChecked(p) =>
    LET A == req[p].amt
        D == req[p].due
        row == payments[req[p].id]
    IN /\ (A > D) <=> (req[p].resp = 400)
       /\ A <= D => req[p].resp \in {200, 404}
       /\ req[p].rows = 1 =>
            /\ req[p].resp = 200
            /\ row.manager_pay_amount = A
            /\ row.remaining_amount % 10 = 0
            /\ 2 * (row.remaining_amount - (D - A)) <= 10
            /\ 2 * ((D - A) - row.remaining_amount) < 10
            /\ row.payment_state = (IF row.remaining_amount > 0 THEN "partial" ELSE "full")
            /\ row.status = (IF row.remaining_amount > 0 THEN "approved_manager_partial"
                                                         ELSE "approved_manager")
            /\ row.stage = "manager_done"

\* an accepted payment below the due amount (partial), answered 200
C2_Witness ==
  \E p \in Procs :
    /\ ManagerChecked(p) /\ req[p].rows = 1 /\ req[p].resp = 200
    /\ req[p].amt < req[p].due
    /\ payments[req[p].id].payment_state = "partial"

\* C3: every stored monetary value is non-negative, and manager_pay_amount,
\* once set, does not exceed the accountant_due_amount of the same record.
C3_MoneyInvariant ==
  \A id \in 1..Len(payments) :
    LET row == payments[id] IN
    /\ row.operation_amount >= 0
    /\ IsSet(row.accountant_due_amount) => row.accountant_due_amount >= 0
    /\ IsSet(row.manager_pay_amount) => row.manager_pay_amount >= 0
    /\ IsSet(row.remaining_amount) => row.remaining_amount >= 0
    /\ IsSet(row.manager_pay_amount) =>
         /\ IsSet(row.accountant_due_amount)
         /\ row.manager_pay_amount <= row.accountant_due_amount

C3_Witness ==
  \E id \in 1..Len(payments) :
    /\ IsSet(payments[id].manager_pay_amount)
    /\ payments[id].manager_pay_amount < payments[id].accountant_due_amount
    /\ payments[id].remaining_amount > 0

\* C4: a payment request is created in stage accountant / pending_accountant;
\* afterwards its stage either stays or moves accountant -> manager or
\* manager -> manager_done, and no record disappears.
C4_StageForward ==
  [][ /\ Len(payments') >= Len(payments)
      /\ \A id \in 1..Len(payments') :
           IF id > Len(payments)
           THEN /\ payments'[id].stage = "accountant"
                /\ payments'[id].status = "pending_accountant"
           ELSE \/ payments'[id].stage = payments[id].stage
                \/ /\ payments[id].stage = "accountant"
                   /\ payments'[id].stage = "manager"
                \/ /\ payments[id].stage = "manager"
                   /\ payments'[id].stage = "manager_done"
    ]_vars

\* a record that went the whole way, with a later accountant request refused
C4_Witness ==
  \E p \in Procs :
    /\ req[p].kind = "accountant" /\ req[p].rows = 0 /\ req[p].resp = 404
    /\ InStage(req[p].id, "manager_done")

ApprovalFields(row) ==
  <<row.stage, row.status, row.manager_pay_amount, row.remaining_amount,
    row.payment_state, row.priority, row.manager_approved, row.manager_id,
    row.manager_updated_at>>

SyncFields(row) ==
  <<row.medad_payload, row.medad_response, row.medad_sync_status, row.medad_error,
    row.medad_synced_at>>

NonSyncFields(row) ==
  <<ApprovalFields(row), row.operation_amount, row.accountant_due_amount,
    row.accountant_id, row.accountant_updated_at>>

Approved(row) == row.status \in {"approved_manager", "approved_manager_partial"}

\* C5: once a record is approved no step changes its approval fields, and a
\* step that changes the sync fields of a record changes nothing else of it.
C5_ApprovalFrozen ==
  [][ \A id \in 1..Len(payments) :
        /\ Approved(payments[id]) =>
             ApprovalFields(payments'[id]) = ApprovalFields(payments[id])
        /\ SyncFields(payments'[id]) # SyncFields(payments[id]) =>
             NonSyncFields(payments'[id]) = NonSyncFields(payments[id])
    ]_vars

\* an approved record whose sync outcome is recorded, and a later role request
\* on it that was refused
C5_Witness ==
  \E p \in Procs :
    /\ req[p].kind \in Roles /\ req[p].rows = 0 /\ req[p].pc = "done"
    /\ Exists(req[p].id)
    /\ Approved(payments[req[p].id])
    /\ IsSet(payments[req[p].id].medad_synced_at)

\* a manager request that committed the approval and has answered
ManagerSynced(p) == req[p].kind = "manager" /\ req[p].pc = "done" /\ req[p].rows = 1

SyncThrew(r) == r.mbody = "error_object"
MalformedBody(r) == r.mbody = "raw"

InvoiceErpFailed(r) ==
  /\ r.kind = "invoice" /\ r.pc = "done" /\ r.http > 0
  /\ \/ r.threw /\ r.err # "bad_json"
     \/ ~r.threw /\ ~r.ok

ManagerErpFailed(r) ==
  /\ r.kind = "manager" /\ r.pc = "done" /\ r.rows = 1
  /\ SyncThrew(r) \/ ~r.ok

FullyAccepted(o) ==
  /\ o.storekeeperaccept = "accepted"
  /\ o.supervisoraccept = "accepted"
  /\ o.manageraccept = "accepted"

\* C7 as claimed: whenever the ERP rejects the post or cannot be reached during
\* a sync attempt of a payment or of an order invoice, the record carries sync
\* status FAILED with an error text and the caller is answered 200 with
\* medad.status = FAILED.
C7_PartialSuccess_AsClaimed ==
  \A p \in Procs :
    /\ ManagerErpFailed(req[p]) =>
         /\ payments[req[p].id].medad_sync_status = "FAILED"
         /\ payments[req[p].id].medad_error # NULLTEXT
         /\ payments[req[p].id].stage = "manager_done"
         /\ req[p].resp = 200 /\ req[p].rmedad = "FAILED"
    /\ InvoiceErpFailed(req[p]) =>
         /\ orders[req[p].id].medad_sync_status = "FAILED"
         /\ orders[req[p].id].medad_error # <<>>
         /\ req[p].resp = 200 /\ req[p].rmedad = "FAILED"

\* slot p sends its payment or invoice POST to the ERP in this step
SendsPost(p, k) ==
  req[p].kind = k /\ req[p].pc = "post" /\ req'[p].http > req[p].http

\* C8 as claimed: a payment is posted to the ERP only when the record is
\* manager_done, and an order invoice only when the storekeeper, supervisor and
\* manager acceptances of the order are all recorded.
C8_SyncAfterApproval_AsClaimed ==
  [][ \A p \in Procs :
        /\ SendsPost(p, "manager") => InStage(req[p].id, "manager_done")
        /\ SendsPost(p, "invoice") => FullyAccepted(orders[req[p].id])
    ]_vars

\* slot p runs the readiness test of the invoice handler in this step
RunsCheck(p) == req[p].kind = "invoice" /\ req[p].pc = "check" /\ req'[p].pc # "check"

\* C9: when the order that the invoice handler read lacks the linked Medad
\* customer, the warehouse, the salesman id or the product number of a line,
\* the order is marked FAILED with the list of the reasons, the request ends
\* with 400 and it has made no HTTP call to the ERP.
C9_PrerequisitesGate ==
  [][ \A p \in Procs :
        LET o == req[p].order IN
        (RunsCheck(p) /\ ( ~o.client_medad_customer_id \/ ~o.medad_customer_id
                           \/ ~o.warehouse_no \/ ~o.medad_salesman_id
                           \/ ~o.medad_product_no[1] \/ ~o.medad_product_no[2] )) =>
          /\ orders'[req[p].id].medad_sync_status = "FAILED"
          /\ orders'[req[p].id].medad_error # <<>>
          /\ orders'[req[p].id].medad_error = Reasons(o)
          /\ IsSet(orders'[req[p].id].medad_synced_at)
          /\ req'[p].pc = "done" /\ req'[p].resp = 400
          /\ req'[p].http = 0
    ]_vars

\* an invoice request refused for two missing prerequisites, without HTTP call
C9_Witness ==
  \E p \in Procs :
    /\ req[p].kind = "invoice" /\ req[p].pc = "done" /\ req[p].resp = 400
    /\ req[p].http = 0
    /\ orders[req[p].id].medad_sync_status = "FAILED"
    /\ Len(orders[req[p].id].medad_error) = 2

\* slot p ends a role request in this step, having looked at the table
AnswersAfterLooking(p) ==
  req[p].kind \in Roles /\ req[p].pc \in {"select", "update"} /\ req'[p].pc = "done"

InputErrors ==
  {"Invalid request id", "Valid dueAmount is required", "Valid amountToPay is required",
   "priority must be 1 or 2"}

ValidationErrors ==
  {"Missing required fields", "Missing product details", "Invalid price format",
   "Invalid quantity"}

\* C11 as claimed: a request that fails validation (a missing required field, a
\* line whose price or quantity is missing or not positive) has issued no write
\* to the database when it is answered, and the table is as it was.
C11_ValidationNoWrite_AsClaimed ==
  \A p \in Procs :
    (req[p].kind = "quotation_create" /\ req[p].pc = "done"
       /\ req[p].err \in ValidationErrors) =>
      req[p].writes = 0

DeliveredSpellings == {"Delivered", "delivered", "DELIVERED"}

\* C12: a PUT /orders/:id or DELETE /orders/:id that finds the order with
\* status delivered, in any letter case, is answered 400 and leaves the table
\* (the row, its lines, its locations) as it was; and no edit or delete is
\* ever about to write to a delivered order.
C12_DeliveredRejects ==
  [][ \A p \in Procs :
        /\ ( /\ req[p].pc = "idle" /\ req'[p].kind \in {"edit", "delete"}
             /\ req'[p].id \in 1..Len(orders)
             /\ ~orders[req'[p].id].deleted
             /\ orders[req'[p].id].status \in DeliveredSpellings ) =>
             /\ req'[p].pc = "done" /\ req'[p].resp = 400
             /\ orders' = orders
        /\ (req[p].kind \in {"edit", "delete"} /\ req[p].pc = "write") =>
             ~(orders[req[p].id].status \in DeliveredSpellings)
    ]_vars

\* an edit refused on an order whose status reads "delivered" in lower case
C12_Witness ==
  \E p \in Procs :
    /\ req[p].kind = "edit" /\ req[p].pc = "done" /\ req[p].resp = 400
    /\ req[p].id \in 1..Len(orders)
    /\ orders[req[p].id].status = "delivered"
    /\ orders[req[p].id].custom_id.rev = 1

\* C13 as claimed: no order has status delivered while one of its three
\* acceptance flags is still pending.
C13_NoStageSkipped_AsClaimed ==
  \A id \in 1..Len(orders) :
    (~orders[id].deleted /\ orders[id].status \in DeliveredSpellings) =>
      FullyAccepted(orders[id])

\* C14 as claimed: the numbers of the stored quotations increase in the order
\* of their creation, and the id generated for a creation that no other
\* creation has overtaken since is higher than every number in the table and
\* has at least five digits.
C14_IdsIncrease_AsClaimed ==
  /\ \A i, j \in 1..Len(quotations) :
       i < j => NumericTail(quotations[i].custom_id) < NumericTail(quotations[j].custom_id)
  /\ \A p \in Procs :
       (req[p].kind = "quotation_create" /\ req[p].pc = "insert"
          /\ req[p].seen = Len(quotations)) =>
         /\ Len(req[p].cid.digits) >= PadWidth
         /\ \A i \in 1..Len(quotations) :
              NumericTail(req[p].cid) > NumericTail(quotations[i].custom_id)

\* C15 as claimed: the id generated for a new order, no other creation having
\* committed since, carries a number that no order, stored or deleted, was
\* ever given.
C15_IdNeverReused_AsClaimed ==
  \A p \in Procs :
    (req[p].kind = "order_create" /\ req[p].pc = "insert"
       /\ req[p].seen = Len(orders)) =>
      \A i \in 1..Len(orders) :
        NumericTail(req[p].cid) # NumericTail(orders[i].custom_id)

\* C16 as claimed: no two stored orders carry the same number, and a creation
\* that hits the unique constraint is retried instead of being answered with
\* the failure.
C16_RaceRetried_AsClaimed ==
  /\ \A i, j \in LiveOrders :
       i # j => NumericTail(orders[i].custom_id) # NumericTail(orders[j].custom_id)
  /\ \A p \in Procs :
       ~(req[p].kind = "order_create" /\ req[p].pc = "done"
           /\ req[p].err = "duplicate key")

\* C17 as claimed: every stored line of a quotation has vat = price * quantity
\* * 0.15 and subtotal = price * quantity + vat, and the totals of the
\* quotation are the sums over its stored lines.
C17_LineTotals_AsClaimed ==
  \A i \in 1..Len(quotations) :
    LET q == quotations[i] IN
    /\ \A k \in 1..Len(q.products) :
         LET l == q.products[k] IN
         /\ l.vat = Vat(l.price * l.quantity)
         /\ l.subtotal = l.price * l.quantity + l.vat
    /\ q.total_vat = SumOver(q.products, "vat")
    /\ q.total_subtotal = SumOver(q.products, "subtotal")
    /\ q.total_price = SumOver(q.products, "price")

\* a column that was not written counts as nothing
Num(x) == IF x = NULL THEN 0 ELSE x

RECURSIVE StoredSum(_, _)
StoredSum(lines, field) ==
  IF lines = <<>> THEN 0
  ELSE StoredSum(Tail(lines), field) +
       (IF field = "vat" THEN Num(lines[1].vat) ELSE Num(lines[1].subtotal))

\* C18 as claimed: the stored total_vat and total_subtotal of every order are
\* the sums over the lines stored for it.
C18_TotalsMatchLines_AsClaimed ==
  \A id \in LiveOrders :
    /\ Num(orders[id].total_vat) = StoredSum(orders[id].products, "vat")
    /\ Num(orders[id].total_subtotal) = StoredSum(orders[id].products, "subtotal")

\* slot p commits its edit in this step
CommitsEdit(p) ==
  req[p].kind = "edit" /\ req[p].pc = "write" /\ req'[p].pc = "done" /\ req'[p].resp = 200

\* C19: a committed edit leaves the three acceptance flags pending and their
\* timestamps empty, and the revision of the custom id one higher than it was
\* (none becomes Rev1, RevN becomes RevN+1); an edit that is not committed
\* changes nothing of the row.
C19_EditResets ==
  [][ \A p \in Procs :
        /\ CommitsEdit(p) =>
             LET o == orders[req[p].id]
                 n == orders'[req[p].id]
             IN /\ n.storekeeperaccept = "pending" /\ n.storekeeperaccept_at = NULL
                /\ n.supervisoraccept = "pending" /\ n.supervisoraccept_at = NULL
                /\ n.manageraccept = "pending" /\ n.manageraccept_at = NULL
                /\ n.custom_id.rev = o.custom_id.rev + 1
        /\ ( /\ req'[p].kind = "edit" /\ req[p].pc # "done"
             /\ req'[p].pc = "done" /\ req'[p].resp # 200 ) =>
             orders' = orders
    ]_vars

\* an order accepted by a role and then edited twice: Rev2, all flags pending
C19_Witness ==
  \E p, q \in Procs :
    /\ req[p].kind = "edit" /\ req[p].pc = "done" /\ req[p].resp = 200
    /\ req[q].kind \in {"accept_storekeeper", "accept_supervisor", "accept_manager"}
    /\ req[q].rows = 1 /\ req[q].id = req[p].id
    /\ orders[req[p].id].custom_id.rev = 2
    /\ ~FullyAccepted(orders[req[p].id])
    /\ orders[req[p].id].manageraccept = "pending"
    /\ orders[req[p].id].storekeeperaccept = "pending"
    /\ orders[req[p].id].supervisoraccept = "pending"

\* C20: the digits of an order's custom id, and the number the id generator
\* reads back from them, never change after the creation; a step changes at
\* most the revision, by one; and a created order carries the digits of its
\* number, padded, without revision.
C20_NumberKept ==
  [][ /\ \A id \in 1..Len(orders) :
           /\ orders'[id].custom_id.digits = orders[id].custom_id.digits
           /\ NumericTail(orders'[id].custom_id) = NumericTail(orders[id].custom_id)
           /\ orders'[id].custom_id.rev \in
                {orders[id].custom_id.rev, orders[id].custom_id.rev + 1}
      /\ \A id \in (Len(orders) + 1)..Len(orders') :
           /\ orders'[id].custom_id.rev = 0
           /\ Len(orders'[id].custom_id.digits) = PadWidth
           /\ orders'[id].custom_id.digits =
                PadStart(Digits(NumericTail(orders'[id].custom_id)), PadWidth)
           /\ NumericTail(orders'[id].custom_id) >= 1
    ]_vars

\* the second order of the year, edited twice: still number 2, now Rev2
C20_Witness ==
  \E id \in 1..Len(orders) :
    /\ orders[id].custom_id.rev = 2
    /\ orders[id].custom_id.digits = <<0, 0, 0, 0, 2>>
    /\ NumericTail(orders[id].custom_id) = 2

\* ------------------------------------------------------- claims, third part
SyncStatuses == {"not_sent", "SENT_TO_MEDAD", "FAILED"}

\* C25 as claimed: in every state the sync status of every payment request and
\* of every order is one of not_sent, SENT_TO_MEDAD and FAILED.
C25_SyncStatusDomain_AsClaimed ==
  /\ \A i \in 1..Len(payments) : payments[i].medad_sync_status \in SyncStatuses
  /\ \A i \in 1..Len(orders) : orders[i].medad_sync_status \in SyncStatuses

\* an acceptance was recorded on the order, or it was delivered
PastInitial(o) ==
  \/ o.storekeeperaccept = "accepted"
  \/ o.supervisoraccept = "accepted"
  \/ o.manageraccept = "accepted"
  \/ o.status \in DeliveredSpellings

\* C26 as claimed: no order on which an acceptance was recorded, or which was
\* delivered, is ever deleted.
C26_AcceptedNeverDeleted_AsClaimed ==
  \A id \in 1..Len(orders) : orders[id].deleted => ~PastInitial(orders[id])

\* slot p holds the row lock of its order between its status check and its
\* commit or rollback
HoldsLock(p) == req[p].kind \in {"edit", "delete"} /\ req[p].pc = "write"

\* C29: in every interleaving of edits and deletes with deliveries of the same
\* order, the slot that has checked the status holds the row lock until it
\* commits or rolls back, no other request changes the row meanwhile (a
\* delivery waits), the row it then writes to is not delivered, and an edit
\* or delete that arrives after the delivery has committed is answered 400.
C29_LockedUntilCommit ==
  [][ \A p \in Procs :
        /\ HoldsLock(p) =>
             /\ orders[req[p].id].lockedBy = p
             /\ ~(orders[req[p].id].status \in DeliveredSpellings)
             /\ req'[p] = req[p] => orders'[req[p].id] = orders[req[p].id]
             /\ req'[p] # req[p] => orders'[req[p].id].lockedBy = 0
        /\ ( /\ req[p].pc = "idle" /\ req'[p].kind \in {"edit", "delete"}
             /\ \E q \in Procs : /\ req[q].kind = "deliver" /\ req[q].rows = 1
                                 /\ req[q].id = req'[p].id
             /\ OrderExists(req'[p].id)
             /\ orders[req'[p].id].status = "Delivered" ) =>
             req'[p].pc = "done" /\ req'[p].resp = 400
    ]_vars

\* a delivery that committed first, and a delete of the same order refused
\* after it while the order had already been edited once
C29_Witness ==
  \E p, q \in Procs :
    /\ req[q].kind = "deliver" /\ req[q].pc = "done" /\ req[q].rows = 1
    /\ req[p].kind = "delete" /\ req[p].pc = "done" /\ req[p].resp = 400
    /\ req[p].id = req[q].id
    /\ orders[req[p].id].status = "Delivered"
    /\ ~orders[req[p].id].deleted
    /\ orders[req[p].id].custom_id.rev = 1

\* C28 as claimed: between a manager request's read of accountant_due_amount
\* and its conditional write, no other request modifies the record.
C28_ReadWriteLocked_AsClaimed ==
  [][ \A p \in Procs :
        (req[p].kind = "manager" /\ req[p].pc = "update" /\ req'[p] = req[p]) =>
          payments'[req[p].id] = payments[req[p].id]
    ]_vars

\* the request of slot p is answered in this step with a failed notification
\* after its statement found its row
NotificationFailed(p, kinds) ==
  /\ req[p].pc = "idle" /\ req'[p].pc = "done"
  /\ req'[p].kind \in kinds /\ req'[p].threw /\ req'[p].rows = 1

\* C24: when the notification that follows an accept, a delivery, a rejection
\* or a creation fails, the request is answered 500 and the change its
\* statement made is in the table all the same; nothing takes it back.
C24_NotificationKeepsChange ==
  [][ \A p \in Procs :
        /\ NotificationFailed(p, {"deliver"}) =>
             orders'[req'[p].id].status = "Delivered"
        /\ NotificationFailed(p, {"accept_manager"}) =>
             orders'[req'[p].id].manageraccept = "accepted"
        /\ NotificationFailed(p, {"quotation_reject"}) =>
             quotations'[req'[p].id] = RejectedQuotation(quotations[req'[p].id])
        /\ NotificationFailed(p, {"quotation_accept"}) =>
             \E role \in QuotationRoles :
               /\ quotations'[req'[p].id] = AcceptedQuotation(quotations[req'[p].id], role)
               /\ AcceptedQuotation(quotations'[req'[p].id], role) = quotations'[req'[p].id]
        /\ ( /\ req[p].kind = "quotation_create" /\ req[p].pc = "insert"
             /\ req'[p].pc = "done" /\ req'[p].threw /\ req'[p].rows = 1 ) =>
             /\ Len(quotations') = Len(quotations) + 1
             /\ quotations'[req'[p].id].custom_id = req[p].cid
             /\ quotations'[req'[p].id].products # <<>>
        /\ (req[p].pc = "done" /\ req[p].threw /\ req'[p].pc = "idle") =>
             orders' = orders /\ quotations' = quotations
    ]_vars

\* a delivery and a rejection, both answered 500 for their notification, both
\* in the table
C24_Witness ==
  \E p, q \in Procs :
    /\ req[p].kind = "deliver" /\ req[p].pc = "done" /\ req[p].resp = 500
    /\ req[p].threw /\ req[p].rows = 1
    /\ orders[req[p].id].status = "Delivered"
    /\ req[q].kind = "quotation_reject" /\ req[q].pc = "done" /\ req[q].resp = 500
    /\ req[q].threw /\ req[q].rows = 1
    /\ quotations[req[q].id].status = "rejected"

\* C27 as claimed: once a quotation has status rejected, no accept request
\* changes its status or sets one of its acceptance flags to accepted.
C27_RejectedIsTerminal_AsClaimed ==
  [][ \A id \in 1..Len(quotations) :
        ( /\ quotations[id].status = "rejected"
          /\ \E p \in Procs : req[p].pc = "idle" /\ req'[p].kind = "quotation_accept" ) =>
          /\ quotations'[id].status = "rejected"
          /\ quotations'[id].storekeeperaccept = quotations[id].storekeeperaccept
          /\ quotations'[id].supervisoraccept = quotations[id].supervisoraccept
          /\ quotations'[id].manageraccept = quotations[id].manageraccept
    ]_vars

\* the rows of orders without the lock, which is no column
Unlocked(table) == [i \in 1..Len(table) |-> [table[i] EXCEPT !.lockedBy = 0]]

\* slot p's transaction commits in this step
Commits(p) ==
  req[p].pc # "done" /\ req'[p].pc = "done" /\ req'[p].resp \in {200, 201}

\* C21: the statements of a creation or an edit take effect together or not
\* at all.  A step in which no transaction commits, and so every step in
\* which a statement fails and the transaction is rolled back, leaves the
\* tables as they were; a step in which one commits installs the header,
\* every line and the totals at once.
C21_AllOrNothing ==
  [][ /\ (\A p \in Procs : ~Commits(p)) =>
           Unlocked(orders') = Unlocked(orders) /\ quotations' = quotations
      /\ \A p \in Procs :
           /\ (Commits(p) /\ req[p].kind = "order_create") =>
                LET row == orders'[Len(orders')] IN
                /\ Len(orders') = Len(orders) + 1
                /\ row.custom_id = req[p].cid
                /\ Len(row.products) = Len(req[p].body.products)
                /\ row.total_price = CreateTotalPrice(req[p].body.products)
           /\ (Commits(p) /\ req[p].kind = "edit") =>
                LET row == orders'[req[p].id] IN
                /\ row.custom_id.rev = orders[req[p].id].custom_id.rev + 1
                /\ row.products = EditedLines(req[p].body.products)
                /\ row.total_subtotal = SumOver(row.products, "subtotal")
                /\ req[p].body.deliveryLocations.given =>
                     row.locations = req[p].body.deliveryLocations.list
           /\ (Commits(p) /\ req[p].kind = "quotation_create") =>
                LET row == quotations'[Len(quotations')] IN
                /\ Len(quotations') = Len(quotations) + 1
                /\ Len(row.products) = Len(req[p].body.products)
                /\ row.total_price = QuotationTotal(req[p].body.products, "price")
    ]_vars

\* an edit whose third statement failed after the order row and its products
\* were rewritten, and a quotation whose second line was refused after the
\* quotation and its first line were inserted: neither left a trace
C21_Witness ==
  \E p, q \in Procs :
    /\ req[p].kind = "edit" /\ req[p].pc = "done" /\ req[p].resp = 500
    /\ req[p].writes = 3
    /\ orders[req[p].id].custom_id.rev = 0
    /\ orders[req[p].id].products = <<GoodLine>>
    /\ req[q].kind = "quotation_create" /\ req[q].pc = "done" /\ req[q].resp = 500
    /\ req[q].writes = 2
    /\ quotations = <<>>

\* C22 as claimed: executeWithRetry runs the operation at most 3 times in
\* total, and the delays it waits start at the base delay and double.
C22_AtMostThreeRuns_AsClaimed ==
  \A p \in Procs :
    /\ req[p].attempts <= 3
    /\ \A i \in 1..Len(req[p].waited) :
         req[p].waited[i] = IF i = 1 THEN BaseDelay ELSE 2 * req[p].waited[i - 1]

\* C23 as claimed: a creation that is answered with a validation error has
\* run its operation exactly once.
C23_ValidationNotRetried_AsClaimed ==
  \A p \in Procs :
    ( /\ req[p].kind = "order_create" /\ req[p].pc = "done"
      /\ req[p].resp = 400 /\ req[p].err = "Invalid delivery date format" ) =>
      req[p].attempts = 1

\* the cached token is still more than the margin away from the expiry its
\* answer stated
Fresh == cachedToken /\ now + RefreshMargin < statedExpiry

\* C30: getMedadToken returns the cached token, without a request, exactly
\* when a token is cached and the time is more than 60 seconds before its
\* stated expiry; otherwise it sends one token request.  A successful answer
\* replaces the cached token and its expiry, a failed one leaves both as
\* they were.
C30_TokenCache ==
  [][ \A p \in Procs :
        /\ (req[p].kind = "salesmen" /\ req[p].pc = "token" /\ req'[p].pc # "token") =>
             /\ UNCHANGED <<cachedToken, tokenExpiry, statedExpiry>>
             /\ Fresh => req'[p].pc = "post" /\ req'[p].http = req[p].http
             /\ ~Fresh => req'[p].pc = "fetching" /\ req'[p].http = req[p].http + 1
        /\ (req[p].kind = "salesmen" /\ req[p].pc = "fetching"
              /\ req'[p].pc # "fetching") =>
             \/ /\ req'[p].pc = "post"
                /\ cachedToken'
                /\ statedExpiry' - now \in {ExpiresIn(s) : s \in StatedLifetimes}
                /\ tokenExpiry' = statedExpiry' - RefreshMargin
             \/ /\ req'[p].pc = "done" /\ req'[p].threw /\ req'[p].resp = 500
                /\ UNCHANGED <<cachedToken, tokenExpiry, statedExpiry>>
    ]_vars

\* one request holds the token it was given from the cache, at a later time
\* than the token was fetched; another found the cached token past its margin,
\* asked for a new one and failed, and the old token is still the cached one
C30_Witness ==
  \E p, q \in Procs :
    /\ req[p].kind = "salesmen" /\ req[p].pc = "post" /\ req[p].http = 0
    /\ req[q].kind = "salesmen" /\ req[q].pc = "done" /\ req[q].threw
    /\ req[q].http = 1 /\ req[q].err \in TokenOutcomes
    /\ cachedToken /\ now >= tokenExpiry /\ now < statedExpiry
    /\ statedExpiry = DefaultExpiresIn

\* ------------------------------------------------------ claims, fourth part
\* a row with one role's acceptance recorded at time t and nothing else changed
WithAcceptance(row, role, t) ==
  CASE role = "storekeeper" -> [row EXCEPT !.storekeeperaccept = "accepted",
                                           !.storekeeperaccept_at = t]
    [] role = "supervisor" -> [row EXCEPT !.supervisoraccept = "accepted",
                                          !.supervisoraccept_at = t]
    [] role = "manager" -> [row EXCEPT !.manageraccept = "accepted",
                                       !.manageraccept_at = t]

RoleOfKind(k) ==
  CASE k = "accept_storekeeper" -> "storekeeper"
    [] k = "accept_supervisor" -> "supervisor"
    [] OTHER -> "manager"

\* C31 as claimed: an accept that found its order or quotation sets the
\* role's flag to accepted together with the role's timestamp and changes
\* nothing else of the row.
C31_AcceptOwnFlagAndTime_AsClaimed ==
  [][ \A p \in Procs :
        (req[p].pc # "done" /\ req'[p].pc = "done" /\ req'[p].rows = 1) =>
          /\ req'[p].kind = "quotation_accept" =>
               \E role \in QuotationRoles :
                 quotations'[req'[p].id] =
                   WithAcceptance(quotations[req'[p].id], role, now)
          /\ req'[p].kind \in {"accept_storekeeper", "accept_supervisor",
                               "accept_manager"} =>
               orders'[req'[p].id] =
                 WithAcceptance(orders[req'[p].id], RoleOfKind(req'[p].kind), now)
    ]_vars

ValidLine(line) == line.price > 0 /\ line.quantity > 0

HasInvalidLine(products) ==
  \E i \in 1..Len(products) : ~ValidLine(products[i])

\* C32 as claimed: a creation or an edit with a line whose price or quantity
\* is not a positive number is refused as a whole, so that no stored order or
\* quotation has such a line.
C32_InvalidLineRejected_AsClaimed ==
  /\ \A i \in 1..Len(orders) : ~HasInvalidLine(orders[i].products)
  /\ \A i \in 1..Len(quotations) : ~HasInvalidLine(quotations[i].products)
  /\ \A p \in Procs :
       ( /\ req[p].pc = "done"
         /\ req[p].kind \in {"order_create", "edit", "quotation_create"}
         /\ HasInvalidLine(req[p].body.products) ) =>
         req[p].resp \notin {200, 201}

\* C33 as claimed: with malformed ids in the table the generators of both
\* record types never raise, and hand out the highest leading number of the
\* table plus one.
C33_MalformedIdsTolerated_AsClaimed ==
  [][ \A p \in Procs :
        /\ req'[p].err # IntegerSyntaxError
        /\ (req[p].pc = "scan" /\ req'[p].pc = "insert") =>
             req'[p].cid =
               FormatId(MaxOf({NumericTail(orders[i].custom_id) : i \in LiveOrders}) + 1)
        /\ (req[p].pc = "idle" /\ req'[p].pc = "insert"
              /\ req'[p].kind = "quotation_create") =>
             req'[p].cid =
               FormatId(MaxOf({NumericTail(quotations[i].custom_id) :
                                 i \in 1..Len(quotations)}) + 1)
    ]_vars

\* C34 as claimed: once no manager request is at work on it, an approved
\* payment request has sync status SENT_TO_MEDAD or FAILED and a sync
\* timestamp, whatever the ERP answered and whatever became of the last write.
C34_OutcomeRecorded_AsClaimed ==
  \A id \in 1..Len(payments) :
    ( /\ payments[id].stage = "manager_done"
      /\ ~\E p \in Procs : /\ req[p].kind = "manager" /\ req[p].id = id
                           /\ req[p].pc \in {"token", "post", "syncwrite"} ) =>
      /\ payments[id].medad_sync_status \in {"SENT_TO_MEDAD", "FAILED"}
      /\ IsSet(payments[id].medad_synced_at)

StagePairs ==
  { <<"accountant", "pending_accountant">>, <<"manager", "pending_manager">>,
    <<"manager_done", "approved_manager">>,
    <<"manager_done", "approved_manager_partial">> }

\* C35: every payment request is in one of the four (stage, status) pairs;
\* manager_approved is TRUE exactly in stage manager_done, the accountant's
\* due amount is set exactly outside stage accountant, and the status is
\* approved_manager_partial exactly when the payment state is partial.
C35_StageStatusConsistent ==
  \A id \in 1..Len(payments) :
    LET row == payments[id] IN
    /\ <<row.stage, row.status>> \in StagePairs
    /\ (row.manager_approved = TRUE) <=> (row.stage = "manager_done")
    /\ IsSet(row.accountant_due_amount) <=> (row.stage # "accountant")
    /\ (row.status = "approved_manager_partial") <=> (row.payment_state = "partial")

\* a request approved in part by the manager while another is being handled
C35_Witness ==
  \E id \in 1..Len(payments) :
    /\ payments[id].stage = "manager_done"
    /\ payments[id].status = "approved_manager_partial"
    /\ payments[id].payment_state = "partial"
    /\ payments[id].remaining_amount > 0
    /\ \E p \in Procs : req[p].kind = "manager" /\ req[p].pc = "done" /\ req[p].resp = 404

\* C36 as claimed: no POST is issued to the ERP for a record that the ERP has
\* already accepted: neither for an order whose invoice was recorded as sent
\* or is about to be, nor for a payment request whose payment was.
C36_PostedAtMostOnce_AsClaimed ==
  [][ \A p \in Procs :
        (req[p].pc = "post" /\ req'[p].pc # "post") =>
          /\ req[p].kind = "invoice" =>
               /\ orders[req[p].id].medad_order_no # "orderNo"
               /\ ~\E q \in Procs \ {p} :
                     /\ req[q].kind = "invoice" /\ req[q].id = req[p].id
                     /\ req[q].pc = "sentwrite"
          /\ req[p].kind = "manager" =>
               /\ payments[req[p].id].medad_sync_status # "SENT_TO_MEDAD"
               /\ ~\E q \in Procs \ {p} :
                     /\ req[q].kind = "manager" /\ req[q].id = req[p].id
                     /\ req[q].pc = "syncwrite" /\ req[q].msync = "SENT_TO_MEDAD"
    ]_vars

\* C37 as claimed: when an order creation has been answered, every
\* connection it took from the pool has been released, retries included.
C37_ConnectionsReleased_AsClaimed ==
  \A p \in Procs :
    (req[p].kind = "order_create" /\ req[p].pc = "done") =>
      req[p].releases = req[p].connects

\* C38 as claimed: an edit that commits leaves each submitted line and each
\* submitted delivery location in the order exactly once, also when one of
\* its statements exceeded the timeout and was sent again.
C38_NoStatementTwice_AsClaimed ==
  [][ \A p \in Procs :
        (Commits(p) /\ req[p].kind = "edit") =>
          LET row == orders'[req[p].id] IN
          /\ row.products = EditedLines(req[p].body.products)
          /\ req[p].body.deliveryLocations.given =>
               row.locations = req[p].body.deliveryLocations.list
    ]_vars

\* C39 as claimed: a request whose transition or creation is in the table
\* when it completes is answered with success, also when the notification
\* that follows failed; an error answer means that nothing was committed.
C39_CommittedAnsweredSuccess_AsClaimed ==
  [][ \A p \in Procs :
        ( /\ req[p].pc # "done" /\ req'[p].pc = "done"
          /\ req'[p].kind \in {"deliver", "accept_manager", "quotation_accept",
                               "quotation_reject", "quotation_create", "order_create"}
          /\ req'[p].rows = 1 ) =>
          req'[p].resp \in {200, 201}
    ]_vars

====
